---- MODULE Spec2Model ----
(***************************************************************************)
(* Request lifecycle engine of Grab (grab/base.py, grab/transport.py).     *)
(*                                                                         *)
(* Spec        : one session running Grab.setup / Grab.request, with the   *)
(*               redirect loop stepped as prepare -> dispatch -> classify. *)
(***************************************************************************)
EXTENDS Integers, Sequences, FiniteSets, TLC

(***************************************************************************)
(* Bounds of the model                                                     *)
(***************************************************************************)
\* number of sessions: two constructed with Grab(), the others made by clone()
MaxSessions == 3
\* number of mutable objects alive at once
MaxObj == 10
\* number of cookies in a jar
MaxCookies == 2
\* number of config-store operations in a run
MaxOps == 3
\* largest body_maxsize a caller configures
MaxCap == 2
\* length of the longest response body
MaxBody == 3
\* largest timeout and connect_timeout a caller configures, in ticks
MaxTimeout == 2
\* longest wait for the connection, the response head or the next chunk, in ticks
MaxGap == 3
\* number of hooks registered at one hook point
MaxHooks == 2
\* number of attempts the retry hooks allow in one call
MaxAttempts == 2
\* largest redirect_limit a caller configures
MaxLimit == 1
\* longest chain of followable redirect responses a server answers in one call
MaxChain == 2
\* longest chain of followable redirect responses in one call of the session
\* followed with its cookies and proxies
MaxHops == 1
\* number of requests one transport instance is asked to dispatch in a row
MaxRequests == 2

(***************************************************************************)
(* Values                                                                  *)
(***************************************************************************)
\* Python None for the string-valued options
None == "None"

\* default_config()["redirect_limit"]
DefaultRedirectLimit == 10

\* A URL or URL reference.  kind: "none" (Python None), "empty" (""),
\* "abs" (scheme://host/path), "path" (/path), "rel" (path without leading /)
Url(kind, host, path) == [kind |-> kind, host |-> host, path |-> path]
NoUrl == Url("none", "", <<>>)
EmptyUrl == Url("empty", "", <<>>)

\* bool(url) in Python: None and "" are falsy
Truthy(u) == u.kind \notin {"none", "empty"}

\* hosts on which grab.util.http.normalize_url raises
UnnormalizableHosts == {"bad host"}

\* hosts that pass normalize_url and on which urllib3 raises LocationParseError
UnparseableHosts == {"no host"}

\* URL arguments a caller passes to request()/setup()
UrlArgs ==
    { Url("abs", "h1", <<"d", "p">>),
      Url("abs", "bad host", <<>>),
      Url("abs", "no host", <<>>),
      Url("rel", "", <<"n">>) }

\* Location header values a server sends (NoUrl: header absent)
Locations ==
    { NoUrl, EmptyUrl,
      Url("path", "", <<"next">>),
      Url("rel", "", <<"n">>),
      Url("abs", "no host", <<>>),
      Url("abs", "h2", <<"y">>) }

\* the response whose body read fails: no Document is built from it
FaultyResponse == [code |-> 200, location |-> NoUrl, fault |-> TRUE]

\* status codes a server answers with
Codes == {200, 300, 301, 302, 303, 304, 307, 308, 404}

\* find_redirect_url: the codes that are followed
RedirectCodes == {301, 302, 303, 307, 308}

Methods == {"GET", "POST", "PUT"}

\* the classified errors Transport.request raises (GrabError subclasses)
TransportErrors == {"GrabTimeoutError", "GrabConnectionError", "GrabInvalidResponse"}

\* the exception classes derived from GrabError
Taxonomy ==
    { "GrabMisuseError", "GrabInvalidUrl", "GrabConnectionError", "GrabTimeoutError",
      "GrabTooManyRedirectsError", "GrabInvalidResponse" }

NoErr == [kind |-> None, msg |-> None]
Err(kind, msg) == [kind |-> kind, msg |-> msg]

NoReq == [url |-> NoUrl, method |-> None, data |-> None]
NoDoc == [code |-> 0, location |-> NoUrl, seq |-> 0]
NoResponse == [code |-> 0, location |-> NoUrl, fault |-> FALSE]
NoFirst == [code |-> 0, location |-> NoUrl]

\* no overrides: the empty mapping
NoKwargs == [k \in {} |-> None]

VARIABLES
    config,        \* Grab.config
    pc,            \* position of the session: idle, dispatching, classifying, done, failed
    redir_count,   \* local redir_count of Grab.request
    req,           \* Transport._request, the descriptor built by process_config
    response,      \* Transport._response, the raw response of the last dispatch
    result,        \* the Document returned to the caller of request()
    err,           \* the error raised to the caller by the last operation
    sent,          \* URLs of the descriptors handed to Transport.request in the current call
    first,         \* status code and Location of the first response of the current call
    rejected,      \* overrides of the current operation when they name an unknown option
    op,            \* the operation in progress or whose error is pending: none, setup, request
    before,        \* history: what the call before had left in its redir_count when the
                   \* Grab.request call in progress started
    grabs,         \* the sessions: for each, whether it exists, the object held by each
                   \* config key, and its cookie jar
    heap,          \* the mutable objects config values refer to
    dumped,        \* the record last returned by dump_config, held by the caller
    trip,          \* src: the session the record was dumped from, while nothing else
                   \* happened since; dst: the session that then loaded the record
    ops,           \* number of config-store operations so far
    cookies_opt,   \* config["cookies"] of the session whose cookies are followed
    cookiejar,     \* Grab.cookies.cookiejar of that session: the cookies stored
    prepared,      \* host, cookies option and Cookie header of the last request prepared
    tr_pc,         \* position of one dispatch: idle, connect, head, read, returned, raised
    tr_req,        \* Transport._request: config_body_maxsize, timeout, connect_timeout,
                   \* config_nobody
    stream,        \* the bytes of the response body the server has not delivered yet
    body,          \* the whole response body the server sends
    chunks,        \* local chunks of read_with_timeout
    bytes_read,    \* local bytes_read of read_with_timeout
    clock,         \* time.time() - op_started
    stall,         \* the phase in which the server stalled longer than its timeout
    out,           \* what the dispatch ended with: the body returned or the error raised
    ext_handlers,  \* HttpClient.ext_handlers: the number of hooks registered per hook point
    cl_pc,         \* position of HttpClient.request: idle, pre, result, retry, done, failed
    cl_req,        \* local req of HttpClient.request: the identity of the request object
    cl_retry,      \* local retry of HttpClient.request: the identity of the Retry object
    cl_doc,        \* local doc of HttpClient.request: the Document of the current attempt
    attempt,       \* number of the current attempt of the call
    calls,         \* the hooks and transport methods invoked by the current call, in order
    g_config,      \* Grab.config of the session whose cookies, proxies and body storage
                   \* are followed through the redirect loop
    g_cookies,     \* Grab.cookies of that session: the cookies in its jar
    g_proxylist,   \* Grab.proxylist of that session: the servers of the pool
    g_pc,          \* position of that session: idle, dispatching, done, failed
    g_redir_count, \* local redir_count of its Grab.request call
    g_request,     \* Transport._request: the descriptor built by the last preparation
    g_doc,         \* the Document of the last exchange processed
    g_err,         \* the error raised to the caller by the call
    g_hops,        \* the exchanges completed in the call: descriptor sent, cookies received
    g_prepares,    \* number of prepare_request invocations of the call
    g_files,       \* number of body files allocated by setup_body_file
    g_cleared,     \* history: clear_cookies() was called and no cookie has been
                   \* configured or received since
    th_transport,  \* Grab.transport of a session and of its clone: the identity of the
                   \* transport object, 0 while the session does not exist
    th_pc,         \* position of the thread running request() on each of the two sessions
    th_request,    \* Transport._request of each transport object: the descriptor held
    th_response,   \* Transport._response of each transport object: the response held
    th_cookies,    \* Grab.cookies of each session: the requests whose cookies it absorbed
    th_sent,       \* local req of Transport.request in each thread: the descriptor sent
    th_got,        \* the request whose response became the Document of each call
    t_transport,   \* one Urllib3Transport instance: pool, request_head, request_body,
                   \* request_log, _request, _response
    t_config,      \* the options of the session the last request was prepared from
    t_pc,          \* position of its user: idle, prepared, responded, done, failed
    t_made,        \* number of pool managers constructed so far; the next one is new
    t_log,         \* the responses obtained by Transport.request: the pool that served
                   \* each, its body file, its connection and how often that went back
    t_wire,        \* the response being processed: its status code and the body bytes
                   \* the server sends
    t_disk,        \* the files of the storage directories: path to content
    t_doc          \* what prepare_response gave its caller: a Document or an error

engineVars == <<config, pc, redir_count, req, response, result, err, sent, first, rejected, op>>
storeVars == <<grabs, heap, dumped, trip, ops>>
cookieVars == <<cookies_opt, cookiejar, prepared>>
transportVars == <<tr_pc, tr_req, stream, body, chunks, bytes_read, clock, stall, out>>
clientVars == <<ext_handlers, cl_pc, cl_req, cl_retry, cl_doc, attempt, calls>>
hopVars ==
    <<g_config, g_cookies, g_proxylist, g_pc, g_redir_count, g_request, g_doc, g_err,
      g_hops, g_prepares, g_files, g_cleared>>
threadVars == <<th_transport, th_pc, th_request, th_response, th_cookies, th_sent, th_got>>
poolVars == <<t_transport, t_config, t_pc, t_made, t_log, t_wire, t_disk, t_doc>>
vars ==
    <<engineVars, storeVars, cookieVars, transportVars, clientVars, hopVars, threadVars,
      before, poolVars>>

\* what the operations of one part of the model leave alone
notPool ==
    <<engineVars, storeVars, cookieVars, transportVars, clientVars, hopVars, threadVars,
      before>>
outsideEngine ==
    <<storeVars, cookieVars, transportVars, clientVars, hopVars, threadVars, poolVars>>
notEngine == <<outsideEngine, before>>
notStore ==
    <<engineVars, cookieVars, transportVars, clientVars, hopVars, threadVars,
      before, poolVars>>
notCookie ==
    <<engineVars, storeVars, transportVars, clientVars, hopVars, threadVars,
      before, poolVars>>
notTransport ==
    <<engineVars, storeVars, cookieVars, clientVars, hopVars, threadVars,
      before, poolVars>>
notClient ==
    <<engineVars, storeVars, cookieVars, transportVars, hopVars, threadVars,
      before, poolVars>>
notHops ==
    <<engineVars, storeVars, cookieVars, transportVars, clientVars, threadVars,
      before, poolVars>>
notThreads ==
    <<engineVars, storeVars, cookieVars, transportVars, clientVars, hopVars,
      before, poolVars>>

(***************************************************************************)
(* Config Store                                                            *)
(***************************************************************************)
default_config ==
    [ method |-> None,
      url |-> NoUrl,
      post |-> None,
      multipart_post |-> None,
      redirect_limit |-> DefaultRedirectLimit,
      follow_location |-> TRUE ]

Dirname(p) == IF p = <<>> THEN <<>> ELSE SubSeq(p, 1, Len(p) - 1)

\* urllib.parse.urljoin(base, url)
urljoin(base, url) ==
    IF ~Truthy(base) THEN url
    ELSE IF ~Truthy(url) THEN base
    ELSE CASE url.kind = "abs" -> url
           [] url.kind = "path" ->
                Url(IF base.kind = "abs" THEN "abs" ELSE "path", base.host, url.path)
           [] OTHER ->
                Url(base.kind, base.host, Dirname(base.path) \o url.path)

\* mutation: the Location value is used as it is, not resolved
make_url_absolute_unresolved(cfg, url) == url

\* Grab.make_url_absolute(url), resolve_base = False
make_url_absolute(cfg, url) ==
    IF Truthy(cfg.url) THEN urljoin(cfg.url, url) ELSE url

\* mutation: a url override is stored as it was given
setup_url_as_given(cfg, kwargs) ==
    IF \E key \in DOMAIN kwargs : key \notin DOMAIN cfg
    THEN [err |-> [kind |-> "GrabMisuseError", msg |-> "Unknown option"], config |-> cfg]
    ELSE [err |-> [kind |-> "None", msg |-> "None"],
          config |-> [k \in DOMAIN cfg |->
                         IF k \in DOMAIN kwargs THEN kwargs[k] ELSE cfg[k]]]

\* mutation: the keys are validated while they are applied, so the valid keys
\* of a refused call stay applied
setup_partial(cfg, kwargs) ==
    [err |-> IF \E key \in DOMAIN kwargs : key \notin DOMAIN cfg
             THEN [kind |-> "GrabMisuseError", msg |-> "Unknown option"]
             ELSE [kind |-> "None", msg |-> "None"],
     config |-> [k \in DOMAIN cfg |->
                    IF k \in DOMAIN kwargs THEN kwargs[k] ELSE cfg[k]]]

\* Grab.setup(**kwargs): the config afterwards and the error raised
setup(cfg, kwargs) ==
    IF \E key \in DOMAIN kwargs : key \notin DOMAIN cfg
    THEN [err |-> Err("GrabMisuseError", "Unknown option"), config |-> cfg]
    ELSE LET kw == IF "url" \in DOMAIN kwargs /\ Truthy(cfg.url)
                   THEN [kwargs EXCEPT !["url"] = make_url_absolute(cfg, kwargs["url"])]
                   ELSE kwargs
         IN [err |-> NoErr,
             config |-> [k \in DOMAIN cfg |->
                            IF k \in DOMAIN kw THEN kw[k] ELSE cfg[k]]]

\* mutation: the payload options are left in place
reset_temporary_options_keeps_payload(cfg) == [cfg EXCEPT !.method = "None"]

\* mutation: the method option is left in place
reset_temporary_options_keeps_method(cfg) ==
    [cfg EXCEPT !.post = "None", !.multipart_post = "None"]

\* Grab.reset_temporary_options
reset_temporary_options(cfg) ==
    [cfg EXCEPT !.post = None, !.multipart_post = None, !.method = None]

(***************************************************************************)
(* Transport: classification of the faults of the HTTP library             *)
(***************************************************************************)
\* the exceptions of urllib3 and ssl that wrap_transport_error has a clause for
LowLevelFaults ==
    {"ReadTimeoutError", "ConnectTimeoutError", "ProtocolError", "SSLError", "ssl.SSLError"}

\* mutation: a read timeout is reported as a connection error
wrap_transport_error_read_as_connection(fault) ==
    CASE fault = "ReadTimeoutError" -> Err("GrabConnectionError", "ReadTimeoutError")
      [] fault = "ConnectTimeoutError" -> Err("GrabConnectionError", "ConnectTimeoutError")
      [] fault = "ProtocolError" -> Err("GrabConnectionError", "ProtocolError")
      [] fault \in {"SSLError", "ssl.SSLError"} -> Err("GrabConnectionError", "SSLError")
      [] OTHER -> Err(fault, None)

\* Urllib3Transport.wrap_transport_error: the exception that leaves the block
\* when fault is raised inside it; any other exception leaves it as it is
wrap_transport_error(fault) ==
    CASE fault = "ReadTimeoutError" -> Err("GrabTimeoutError", "ReadTimeoutError")
      [] fault = "ConnectTimeoutError" -> Err("GrabConnectionError", "ConnectTimeoutError")
      [] fault = "ProtocolError" -> Err("GrabConnectionError", "ProtocolError")
      [] fault \in {"SSLError", "ssl.SSLError"} -> Err("GrabConnectionError", "SSLError")
      [] OTHER -> Err(fault, None)

\* exceptions of urllib3 that wrap_transport_error has no clause for, such as
\* the ProxyError of a proxy that cannot be reached
OtherFaults == {"ProxyError"}

\* mutation: LocationParseError is not caught around pool.urlopen
request_error_uncaught(fault) == wrap_transport_error(fault)

\* Urllib3Transport.request: the exception that leaves the method when
\* pool.urlopen raises fault (the except clause, then wrap_transport_error)
request_error(fault) ==
    IF fault = "LocationParseError"
    THEN Err("GrabInvalidResponse", "LocationParseError")
    ELSE wrap_transport_error(fault)

(***************************************************************************)
(* Transport: building the descriptor                                      *)
(***************************************************************************)
\* normalize_url(url) raises
NormalizeFails(u) == u.kind = "none" \/ u.host \in UnnormalizableHosts

\* detect_request_method: the configured method, else POST with a payload, else GET
detect_request_method(cfg) ==
    IF cfg.method # None THEN cfg.method
    ELSE IF cfg.post # None \/ cfg.multipart_post # None THEN "POST"
    ELSE "GET"

\* mutation: only POST is checked for a missing payload
process_config_post_only(cfg, method) ==
    IF method = "POST" /\ cfg.post = None /\ cfg.multipart_post = None
    THEN [err |-> Err("GrabMisuseError", "Neither post or multipart_post"), data |-> None]
    ELSE [err |-> NoErr,
          data |-> IF cfg.multipart_post # None THEN cfg.multipart_post
                   ELSE cfg.post]

\* Urllib3Transport.process_config_post: the error raised and the body
process_config_post(cfg, method) ==
    IF method \in {"POST", "PUT"} /\ cfg.post = None /\ cfg.multipart_post = None
    THEN [err |-> Err("GrabMisuseError", "Neither post or multipart_post"), data |-> None]
    ELSE [err |-> NoErr,
          data |-> IF cfg.multipart_post # None THEN cfg.multipart_post
                   ELSE cfg.post]

\* Urllib3Transport.process_config: the error raised and the descriptor built
process_config(cfg) ==
    IF NormalizeFails(cfg.url)
    THEN [err |-> Err("GrabInvalidUrl", "normalize_url"), req |-> NoReq]
    ELSE LET method == detect_request_method(cfg)
             p == process_config_post(cfg, method)
         IN IF p.err # NoErr
            THEN [err |-> p.err, req |-> NoReq]
            ELSE [err |-> NoErr,
                  req |-> [url |-> cfg.url, method |-> method, data |-> p.data]]

\* Grab.prepare_request(**kwargs): reset, setup, process_config
prepare_request(cfg, kwargs) ==
    LET s == IF kwargs = NoKwargs THEN [err |-> NoErr, config |-> cfg]
             ELSE setup(cfg, kwargs)
    IN IF s.err # NoErr
       THEN [err |-> s.err, config |-> s.config, req |-> NoReq]
       ELSE LET p == process_config(s.config)
            IN [err |-> p.err, config |-> s.config, req |-> p.req]

(***************************************************************************)
(* Inputs of the operations                                                *)
(***************************************************************************)
\* the values a caller may give each option
OptionValues(key) ==
    CASE key = "method" -> Methods
      [] key = "post" -> {"p1"}
      [] key = "multipart_post" -> {"m1"}
      [] key = "redirect_limit" -> 0..MaxLimit
      [] key = "follow_location" -> BOOLEAN
      [] key = "url" -> UrlArgs
      [] OTHER -> {1}

\* "bogus" is a key outside the enumerated option set
OptionKeys == {"method", "post", "multipart_post", "redirect_limit", "follow_location", "bogus"}

\* the overrides name a key outside the option set of default_config
HasUnknownKey(kwargs) == \E k \in DOMAIN kwargs : k \notin DOMAIN default_config

One(key, val) == [k \in {key} |-> val]
Two(k1, v1, k2, v2) == [k \in {k1, k2} |-> IF k = k1 THEN v1 ELSE v2]
WithUrl(kwargs, u) ==
    [k \in DOMAIN kwargs \cup {"url"} |-> IF k = "url" THEN u ELSE kwargs[k]]

(***************************************************************************)
(* Responses                                                               *)
(***************************************************************************)
\* mutation: every 3xx code with a Location is followed
find_redirect_url_any_3xx(cfg, d) ==
    IF cfg.follow_location /\ d.code \in 300..399 /\ Truthy(d.location)
    THEN d.location
    ELSE NoUrl

\* Grab.find_redirect_url(doc): NoUrl stands for the None result
find_redirect_url(cfg, d) ==
    IF cfg.follow_location /\ d.code \in RedirectCodes /\ Truthy(d.location)
    THEN d.location
    ELSE NoUrl

\* Urllib3Transport.prepare_response: the Document of the current response
prepare_response(rsp, n) ==
    [ code |-> rsp.code, location |-> rsp.location, seq |-> n ]

\* would the engine follow this response
Followable(cfg, rsp) ==
    cfg.follow_location /\ rsp.code \in RedirectCodes /\ Truthy(rsp.location)

Idle == pc = "idle"

(***************************************************************************)
(* Operations of a session                                                 *)
(***************************************************************************)
InitEngine ==
    /\ config = default_config
    /\ pc = "idle"
    /\ redir_count = 0
    /\ req = NoReq
    /\ response = NoResponse
    /\ result = NoDoc
    /\ err = NoErr
    /\ sent = <<>>
    /\ first = NoFirst
    /\ rejected = NoKwargs
    /\ op = "none"
    /\ before = 0

\* g.setup(**kwargs) called by the user between requests
DoSetup(kwargs) ==
    /\ Idle
    /\ LET s == setup(config, kwargs)
       IN /\ config' = s.config
          /\ err' = s.err
          /\ pc' = IF s.err # NoErr THEN "failed" ELSE "idle"
          /\ op' = IF s.err # NoErr THEN "setup" ELSE "none"
    /\ rejected' = IF HasUnknownKey(kwargs) THEN kwargs ELSE NoKwargs
    /\ UNCHANGED <<redir_count, req, response, result, sent, first>>
    /\ UNCHANGED notEngine

Setup ==
    \/ \E k \in OptionKeys \cup {"url"} : \E v \in OptionValues(k) : DoSetup(One(k, v))
    \/ \E k2 \in {"method", "redirect_limit", "url"} :
         \E v2 \in OptionValues(k2) : DoSetup(Two("bogus", 1, k2, v2))

\* mutation: the counter of the call before is taken over
new_redir_count_kept(count) == count

\* redir_count = 0 at the start of Grab.request, whatever the call before
\* left in its own redir_count
new_redir_count(count) == 0

\* Grab.request(url, **kwargs) up to the loop: lines 231-234
DoRequest(kwargs) ==
    /\ Idle
    /\ LET p == prepare_request(config, kwargs)
       IN /\ config' = p.config
          /\ req' = p.req
          /\ err' = p.err
          /\ pc' = IF p.err = NoErr THEN "dispatching" ELSE "failed"
    /\ redir_count' = new_redir_count(redir_count)
    /\ before' = redir_count
    /\ rejected' = IF HasUnknownKey(kwargs) THEN kwargs ELSE NoKwargs
    /\ op' = "request"
    /\ UNCHANGED <<response, result, sent, first>>
    /\ UNCHANGED outsideEngine

RequestCall ==
    \/ DoRequest(NoKwargs)
    \/ \E u \in UrlArgs : DoRequest(One("url", u))
    \/ \E k \in OptionKeys : \E v \in OptionValues(k) : DoRequest(One(k, v))
    \/ \E v1 \in OptionValues("method"), k2 \in {"post", "multipart_post", "bogus"} :
         \E v2 \in OptionValues(k2), u \in UrlArgs :
            DoRequest(WithUrl(Two("method", v1, k2, v2), u))

\* Transport.request() raises a classified error: lines 237-241
TransportError ==
    /\ pc = "dispatching"
    /\ req.url.host \notin UnparseableHosts
    /\ \E e \in TransportErrors :
         err' = Err(e, "transport")
    /\ sent' = Append(sent, req.url)
    /\ config' = reset_temporary_options(config)
    /\ pc' = "failed"
    /\ UNCHANGED <<redir_count, req, response, result, first, rejected, op>>
    /\ UNCHANGED notEngine

\* Transport.request() raises an exception that is no GrabError: the except
\* clause of line 239 does not match and the exception leaves the call as it is
TransportForeignError ==
    /\ pc = "dispatching"
    /\ req.url.host \notin UnparseableHosts
    /\ \E f \in OtherFaults : err' = request_error(f)
    /\ sent' = Append(sent, req.url)
    /\ pc' = "failed"
    /\ UNCHANGED <<config, redir_count, req, response, result, first, rejected, op>>
    /\ UNCHANGED notEngine

\* pool.urlopen cannot parse the URL of the descriptor and raises
\* LocationParseError before anything is sent; Transport.request raises what
\* request_error makes of it, a GrabError or not
TransportParseError ==
    /\ pc = "dispatching"
    /\ req.url.host \in UnparseableHosts
    /\ LET e == request_error("LocationParseError")
       IN /\ err' = e
          /\ config' = IF e.kind \in Taxonomy THEN reset_temporary_options(config) ELSE config
    /\ sent' = Append(sent, req.url)
    /\ pc' = "failed"
    /\ UNCHANGED <<redir_count, req, response, result, first, rejected, op>>
    /\ UNCHANGED notEngine

\* Transport.request() returns with a response: lines 237-238
TransportResponse ==
    /\ pc = "dispatching"
    /\ req.url.kind = "abs"
    /\ req.url.host \notin UnparseableHosts
    /\ \/ \E c \in Codes, l \in Locations :
            LET rsp == [code |-> c, location |-> l, fault |-> FALSE]
            IN /\ Followable(config, rsp) => Len(sent) < MaxChain
               /\ response' = rsp
       \/ response' = FaultyResponse
    /\ sent' = Append(sent, req.url)
    /\ pc' = "classifying"
    /\ UNCHANGED <<config, redir_count, req, result, err, first, rejected, op>>
    /\ UNCHANGED notEngine

\* mutation: the limit is compared with >= instead of >
too_many_redirects_off_by_one(count, cfg) == count >= cfg.redirect_limit

\* the redirect counter is over the configured limit: line 248
too_many_redirects(count, cfg) == count > cfg.redirect_limit

\* Grab.process_request_result(): the config afterwards, the error raised, the Document
process_request_result(cfg, rsp, n) ==
    LET c == reset_temporary_options(cfg)
    IN IF rsp.fault
       THEN [err |-> Err("GrabTimeoutError", "ReadTimeoutError"), config |-> c, doc |-> NoDoc]
       ELSE [err |-> NoErr, config |-> c, doc |-> prepare_response(rsp, n)]

\* the else branch of the loop: lines 243-254
Classify ==
    /\ pc = "classifying"
    /\ LET r == process_request_result(config, response, Len(sent))
       IN IF r.err # NoErr
          THEN /\ config' = r.config
               /\ err' = r.err
               /\ pc' = "failed"
               /\ UNCHANGED <<redir_count, req, result, response, first>>
          ELSE LET redir_url == find_redirect_url(r.config, r.doc)
               IN /\ first' = IF Len(sent) = 1 THEN [code |-> r.doc.code, location |-> r.doc.location] ELSE first
                  /\ IF redir_url # NoUrl
                     THEN /\ redir_count' = redir_count + 1
                          /\ IF too_many_redirects(redir_count + 1, r.config)
                             THEN /\ err' = Err("GrabTooManyRedirectsError", "redirect_limit")
                                  /\ pc' = "failed"
                                  /\ config' = r.config
                                  /\ UNCHANGED <<req, result, response>>
                             ELSE LET p == prepare_request(r.config,
                                             One("url", make_url_absolute(r.config, redir_url)))
                                  IN /\ config' = p.config
                                     /\ req' = p.req
                                     /\ err' = p.err
                                     /\ pc' = IF p.err = NoErr THEN "dispatching" ELSE "failed"
                                     /\ response' = NoResponse
                                     /\ UNCHANGED result
                     ELSE /\ result' = r.doc
                          /\ pc' = "done"
                          /\ config' = r.config
                          /\ UNCHANGED <<redir_count, req, err, response>>
    /\ UNCHANGED <<sent, rejected, op>>
    /\ UNCHANGED notEngine

\* the operation ends: the Document is returned or the error raised to the caller
\* (lines 241, 249, 254), who is then free to start the next operation
Return ==
    /\ pc \in {"done", "failed"}
    /\ pc' = "idle"
    /\ req' = NoReq
    /\ response' = NoResponse
    /\ result' = NoDoc
    /\ err' = NoErr
    /\ sent' = <<>>
    /\ first' = NoFirst
    /\ rejected' = NoKwargs
    /\ op' = "none"
    /\ before' = 0
    /\ UNCHANGED <<config, redir_count>>
    /\ UNCHANGED outsideEngine

(***************************************************************************)
(* Config Store with object identity: clone, dump_config, load_config      *)
(*                                                                         *)
(* A container-valued option holds the identity of a mutable object (0 is  *)
(* None).  An object is a container with one entry of its own (val: how    *)
(* many times it was changed) and at most one nested container (inner).    *)
(* The state dict also carries the cookiejar_cookies list.                 *)
(***************************************************************************)
Sessions == 1..MaxSessions
ObjIds == 1..MaxObj

\* MUTABLE_CONFIG_KEYS of grab/base.py, in the order of the list
MUTABLE_CONFIG_KEYS == <<"post", "multipart_post", "headers", "cookies">>

ContainerKeys == {"post", "multipart_post", "headers", "cookies", "common_headers", "state"}
StoreKeys == ContainerKeys \cup {"redirect_limit"}

Blank == [val |-> 0, inner |-> 0, has_cj |-> FALSE, cj |-> <<>>]

NoConfig == [k \in StoreKeys |-> 0]
NoGrab == [alive |-> FALSE, config |-> NoConfig, jar |-> <<>>]
NoDump == [present |-> FALSE, config |-> NoConfig]

\* the objects a set of config values reaches
Reach(h, roots) ==
    LET r == roots \ {0}
    IN r \cup ({h[o].inner : o \in r} \ {0})

Roots(gs, dm) ==
    {gs[s].config[k] : s \in {x \in Sessions : gs[x].alive}, k \in ContainerKeys}
    \cup (IF dm.present THEN {dm.config[k] : k \in ContainerKeys} ELSE {})

Free(h, gs, dm) == ObjIds \ Reach(h, Roots(gs, dm))

Min(S) == CHOOSE x \in S : \A y \in S : x <= y

\* objects nothing refers to any more are dropped
Collect(h, gs, dm) ==
    LET R == Reach(h, Roots(gs, dm))
    IN [o \in ObjIds |-> IF o \in R THEN h[o] ELSE Blank]

\* a cookie of the jar
Cookie(domain, name, value) == [domain |-> domain, name |-> name, value |-> value]
CookieInputs == {Cookie("d1", "a", 1), Cookie("d2", "a", 1), Cookie("d1", "b", 1)}

SameKey(c1, c2) == c1.domain = c2.domain /\ c1.name = c2.name

\* the last of the positions S of a jar, 0 when there is none
LastIndex(S) == IF S = {} THEN 0 ELSE CHOOSE i \in S : \A j \in S : j <= i

\* CookieJar.set_cookie: the jar is kept per domain, then per name; a cookie
\* with a known key replaces the old one in place, a new name of a known domain
\* follows the cookies of that domain, a new domain comes last
set_cookie(jar, c) ==
    LET i == LastIndex({x \in 1..Len(jar) : SameKey(jar[x], c)})
        d == LastIndex({x \in 1..Len(jar) : jar[x].domain = c.domain})
    IN IF i # 0 THEN [jar EXCEPT ![i] = c]
       ELSE IF d # 0 THEN SubSeq(jar, 1, d) \o <<c>> \o SubSeq(jar, d + 1, Len(jar))
       ELSE Append(jar, c)

\* CookieManager.from_cookie_list: a new jar with the cookies set one by one
RECURSIVE from_cookie_list_onto(_, _)
from_cookie_list_onto(jar, items) ==
    IF items = <<>> THEN jar
    ELSE from_cookie_list_onto(set_cookie(jar, Head(items)), Tail(items))

from_cookie_list(items) == from_cookie_list_onto(<<>>, items)

\* list(self.cookies.cookiejar): the cookies in the order the jar iterates them
cookiejar_list(jar) == jar

\* copy_config(config): a copy of the mapping in which the value of every key
\* of MUTABLE_CONFIG_KEYS is replaced by copy(value), a new object with the
\* same entries; F are the identities free for new objects
RECURSIVE copy_mutable_keys(_, _, _, _)
copy_mutable_keys(h, cfg, keys, F) ==
    IF keys = <<>> THEN [heap |-> h, config |-> cfg, free |-> F]
    ELSE LET k == Head(keys)
         IN IF cfg[k] = 0
            THEN copy_mutable_keys(h, cfg, Tail(keys), F)
            ELSE LET n == Min(F)
                 IN copy_mutable_keys([h EXCEPT ![n] = h[cfg[k]]],
                                      [cfg EXCEPT ![k] = n], Tail(keys), F \ {n})

copy_config(h, cfg, F) == copy_mutable_keys(h, cfg, MUTABLE_CONFIG_KEYS, F)

\* mutation: the record keeps the session's own state and no cookie snapshot
dump_config_no_snapshot(h, g, F) == copy_config(h, g.config, F)

\* Grab.dump_config: copy_config plus a new state dict with the cookie list
dump_config(h, g, F) ==
    LET c == copy_config(h, g.config, F)
        n == Min(c.free)
    IN [heap |-> [c.heap EXCEPT ![n] = [val |-> 0, inner |-> 0, has_cj |-> TRUE,
                                        cj |-> cookiejar_list(g.jar)]],
        config |-> [c.config EXCEPT !["state"] = n],
        free |-> c.free \ {n}]

\* Grab.load_config: the session after loading the record
load_config(h, g, rec, F) ==
    LET c == copy_config(h, rec, F)
    IN [heap |-> c.heap,
        grab |-> [g EXCEPT !.config = c.config,
                           !.jar = IF rec["state"] # 0 /\ h[rec["state"]].has_cj
                                   THEN from_cookie_list(h[rec["state"]].cj) ELSE @],
        free |-> c.free]

\* number of new objects copy_config needs
CopyNeeds(cfg) == Cardinality({i \in 1..Len(MUTABLE_CONFIG_KEYS) : cfg[MUTABLE_CONFIG_KEYS[i]] # 0})

\* the sessions constructed with Grab()
Constructed == {1, 2}

\* no dump_config/load_config round trip is under way
NoTrip == [src |-> 0, dst |-> 0]

\* Grab.__init__: default_config() with the session's own common_headers and
\* state dicts, and an empty cookie manager
InitStore ==
    /\ grabs = [s \in Sessions |->
                  IF s \in Constructed
                  THEN [alive |-> TRUE,
                        config |-> [NoConfig EXCEPT !["common_headers"] = 2 * s - 1,
                                                    !["state"] = 2 * s,
                                                    !["redirect_limit"] = DefaultRedirectLimit],
                        jar |-> <<>>]
                  ELSE NoGrab]
    /\ heap = [o \in ObjIds |-> Blank]
    /\ dumped = NoDump
    /\ trip = NoTrip
    /\ ops = 0

\* one more operation on the config store
Step(t) ==
    /\ ops < MaxOps
    /\ ops' = ops + 1
    /\ trip' = t
    /\ UNCHANGED notStore

\* Grab.clone(): the new session t (the next unused session identity) gets
\* self.dump_config() as its config and a deep copy of the cookie manager
Clone(s, t) ==
    /\ grabs[s].alive
    /\ t = Min({u \in Sessions : ~grabs[u].alive} \cup {MaxSessions + 1})
    /\ t \in Sessions
    /\ Cardinality(Free(heap, grabs, dumped)) >= CopyNeeds(grabs[s].config) + 1
    /\ LET d == dump_config(heap, grabs[s], Free(heap, grabs, dumped))
           gs == [grabs EXCEPT ![t] = [alive |-> TRUE, config |-> d.config,
                                       jar |-> grabs[s].jar]]
       IN /\ grabs' = gs
          /\ heap' = Collect(d.heap, gs, dumped)
    /\ UNCHANGED dumped
    /\ Step(NoTrip)

\* record = g.dump_config()
DumpConfig(s) ==
    /\ grabs[s].alive
    /\ LET dm0 == NoDump
           F == Free(heap, grabs, dm0)
       IN /\ Cardinality(F) >= CopyNeeds(grabs[s].config) + 1
          /\ LET d == dump_config(heap, grabs[s], F)
                 dm == [present |-> TRUE, config |-> d.config]
             IN /\ dumped' = dm
                /\ heap' = Collect(d.heap, grabs, dm)
    /\ UNCHANGED grabs
    /\ Step([src |-> s, dst |-> 0])

\* g.load_config(record)
LoadConfig(t) ==
    /\ grabs[t].alive /\ dumped.present
    /\ Cardinality(Free(heap, grabs, dumped)) >= CopyNeeds(dumped.config)
    /\ LET l == load_config(heap, grabs[t], dumped.config, Free(heap, grabs, dumped))
           gs == [grabs EXCEPT ![t] = l.grab]
       IN /\ grabs' = gs
          /\ heap' = Collect(l.heap, gs, dumped)
    /\ UNCHANGED dumped
    /\ Step(IF trip.src \notin {0, t} /\ trip.dst = 0
            THEN [trip EXCEPT !.dst = t] ELSE NoTrip)

\* g.setup(key=value) with a new container holding a nested container as
\* value, e.g. post={"k": ["a"]}; or g.setup(redirect_limit=1)
SetupOption(s) ==
    /\ grabs[s].alive
    /\ \/ \E k \in {"post", "headers"} :
            /\ Cardinality(Free(heap, grabs, dumped)) >= 2
            /\ LET F == Free(heap, grabs, dumped)
                   n1 == Min(F)
                   n2 == Min(F \ {n1})
                   gs == [grabs EXCEPT ![s].config[k] = n1]
                   h == [heap EXCEPT ![n1] = [Blank EXCEPT !.inner = n2],
                                     ![n2] = Blank]
               IN /\ grabs' = gs
                  /\ heap' = Collect(h, gs, dumped)
       \/ /\ grabs[s].config["redirect_limit"] # 1
          /\ grabs' = [grabs EXCEPT ![s].config["redirect_limit"] = 1]
          /\ heap' = heap
    /\ UNCHANGED dumped
    /\ Step(NoTrip)

\* the cookie manager of a session stores the cookies of one response (one or
\* two Set-Cookie headers), or one cookie set by the user
SetCookie(s) ==
    /\ grabs[s].alive
    /\ \E c1 \in CookieInputs, c2 \in CookieInputs :
         LET j1 == set_cookie(grabs[s].jar, c1)
             j == IF c2 = c1 THEN j1 ELSE set_cookie(j1, c2)
         IN /\ Len(j) <= MaxCookies
            /\ j # grabs[s].jar
            /\ grabs' = [grabs EXCEPT ![s].jar = j]
    /\ UNCHANGED <<heap, dumped>>
    /\ Step(NoTrip)

\* the user changes the value of a container option of a session in place:
\* an entry of the container itself (depth 1) or of the container nested in it
\* (depth 2)
Mutate(s) ==
    /\ grabs[s].alive
    /\ \E k \in ContainerKeys, depth \in 1..2 :
         LET o == grabs[s].config[k]
             target == IF depth = 1 THEN o ELSE heap[o].inner
         IN /\ o # 0 /\ target # 0
            /\ heap[target].val = 0
            /\ heap' = [heap EXCEPT ![target].val = 1]
    /\ UNCHANGED <<grabs, dumped>>
    /\ Step(NoTrip)

NextStore ==
    \/ \E s, t \in Sessions : Clone(s, t)
    \/ \E s \in Sessions : DumpConfig(s)
    \/ \E s \in Sessions : LoadConfig(s)
    \/ \E s \in Sessions : SetupOption(s)
    \/ \E s \in Sessions : SetCookie(s)
    \/ \E s \in Sessions : Mutate(s)

(***************************************************************************)
(* Cookie options of a request: Urllib3Transport.process_cookie_options    *)
(*                                                                         *)
(* A host name is the sequence of its dot-separated labels:                *)
(* "www.example.com" is <<"www", "example", "com">>, "www." is <<"www", "">>*)
(* and the empty string is <<"">>.                                         *)
(***************************************************************************)
\* urlsplit(request_url).hostname is None
NoHost == <<>>
EmptyName == <<"">>

\* hosts of the URLs a caller requests
Hosts ==
    { <<"www", "example", "com">>, <<"example", "com">>,
      <<"other", "org">>, <<"www", "">>, NoHost }

\* request_host.startswith("www.")
StartsWithWww(h) == Len(h) >= 2 /\ h[1] = "www"

\* request_host_no_www of process_cookie_options
request_host_no_www(h) == IF StartsWithWww(h) THEN Tail(h) ELSE h

\* the cookies option: a dict of name/value pairs; the empty mapping stands for
\* None and {}, which the code treats alike
NoCookiesOption == [n \in {} |-> 0]
CookiesOptions ==
    { NoCookiesOption, [n \in {"a"} |-> 1], [n \in {"a"} |-> 2], [n \in {"a", "b"} |-> 1] }

\* mutation: the cookie is added and the one stored under its name and domain
\* stays
cookies_set_keeps_old(jar, name, value, domain) ==
    jar \cup {[name |-> name, value |-> value, domain |-> domain]}

\* CookieManager.set(name, value, domain): the cookie replaces the one stored
\* under the same name and domain
cookies_set(jar, name, value, domain) ==
    {c \in jar : ~(c.name = name /\ c.domain = domain)}
    \cup {[name |-> name, value |-> value, domain |-> domain]}

\* the loop over grab.config["cookies"].items()
RECURSIVE cookies_set_all(_, _, _, _)
cookies_set_all(jar, opt, names, domain) ==
    IF names = {} THEN jar
    ELSE LET n == CHOOSE x \in names : TRUE
         IN cookies_set_all(cookies_set(jar, n, opt[n], domain), opt, names \ {n}, domain)

\* domain d is a suffix of host h, label by label
IsSuffix(d, h) ==
    Len(d) <= Len(h) /\ SubSeq(h, Len(h) - Len(d) + 1, Len(h)) = d

\* the cookie jar's domain match: a cookie without a domain goes to every host
DomainMatch(h, d) == d = EmptyName \/ (h # NoHost /\ IsSuffix(d, h))

\* CookieManager.get_cookie_header(request_url, request_headers): the
\* name=value pairs of the Cookie header
get_cookie_header(jar, h) ==
    {<<c.name, c.value>> : c \in {x \in jar : DomainMatch(h, x.domain)}}

\* Urllib3Transport.process_cookie_options: the jar after the call and the
\* Cookie header returned
process_cookie_options(jar, opt, h) ==
    LET j == IF h # NoHost /\ DOMAIN opt # {}
             THEN cookies_set_all(jar, opt, DOMAIN opt, request_host_no_www(h))
             ELSE jar
    IN [jar |-> j, hdr |-> get_cookie_header(j, h)]

NotPrepared == [host |-> NoHost, opt |-> NoCookiesOption, hdr |-> {}]

InitCookies ==
    /\ cookies_opt = NoCookiesOption
    /\ cookiejar = {}
    /\ prepared = NotPrepared

\* g.setup(cookies=opt)
SetupCookies ==
    /\ \E opt \in CookiesOptions :
         /\ opt # cookies_opt
         /\ cookies_opt' = opt
    /\ UNCHANGED <<cookiejar, prepared>>
    /\ UNCHANGED notCookie

\* Grab.clear_cookies()
ClearCookies ==
    /\ cookies_opt # NoCookiesOption \/ cookiejar # {}
    /\ cookies_opt' = NoCookiesOption
    /\ cookiejar' = {}
    /\ UNCHANGED prepared
    /\ UNCHANGED notCookie

\* a request to host h is prepared: process_config calls process_cookie_options
PrepareCookies ==
    /\ \E h \in Hosts :
         LET r == process_cookie_options(cookiejar, cookies_opt, h)
         IN /\ cookiejar' = r.jar
            /\ prepared' = [host |-> h, opt |-> cookies_opt, hdr |-> r.hdr]
    /\ UNCHANGED cookies_opt
    /\ UNCHANGED notCookie

\* the records a caller hands to load_config: the cookies option and the
\* state.cookiejar_cookies list of the session that was dumped
Snapshots ==
    { [cookies |-> opt, cookiejar_cookies |-> jar] :
        opt \in {NoCookiesOption, [n \in {"a"} |-> 2]},
        jar \in {{}, {[name |-> "b", value |-> 1, domain |-> <<"other", "org">>]}} }

\* Grab.load_config(rec): the cookies option and the jar afterwards
load_config_cookies(rec) == [opt |-> rec.cookies, jar |-> rec.cookiejar_cookies]

\* g.load_config(rec)
LoadCookies ==
    /\ \E rec \in Snapshots :
         LET l == load_config_cookies(rec)
         IN /\ l.opt # cookies_opt \/ l.jar # cookiejar
            /\ cookies_opt' = l.opt
            /\ cookiejar' = l.jar
    /\ UNCHANGED prepared
    /\ UNCHANGED notCookie

\* the cookie a server sets in its answer to the request prepared last
ReceivedCookie == <<"a", 3>>

\* the answer to the request prepared last sets a cookie without a Domain
\* attribute and process_request_result merges it into the jar under the host
\* of the request (reuse_cookies is on)
ReceiveCookies ==
    /\ prepared.host # NoHost
    /\ cookiejar' = cookies_set(cookiejar, ReceivedCookie[1], ReceivedCookie[2], prepared.host)
    /\ cookiejar' # cookiejar
    /\ UNCHANGED <<cookies_opt, prepared>>
    /\ UNCHANGED notCookie

NextCookies ==
    SetupCookies \/ ClearCookies \/ PrepareCookies \/ LoadCookies \/ ReceiveCookies

(***************************************************************************)
(* One dispatch of the transport: Urllib3Transport.request, then           *)
(* prepare_response reading the body with read_with_timeout.               *)
(* Time is counted in ticks; a body is the sequence of its byte positions. *)
(***************************************************************************)
\* default_chunk_size of read_with_timeout
default_chunk_size == 10000

\* 0 stands for an option that is None
Requests ==
    [ config_body_maxsize : 0..MaxCap, timeout : 0..MaxTimeout,
      connect_timeout : 0..MaxTimeout, config_nobody : BOOLEAN ]

NoRequest ==
    [config_body_maxsize |-> 0, timeout |-> 0, connect_timeout |-> 0, config_nobody |-> FALSE]

Bytes(n) == [i \in 1..n |-> i]

\* b"".join(chunks)
RECURSIVE Join(_)
Join(cs) == IF cs = <<>> THEN <<>> ELSE Head(cs) \o Join(Tail(cs))

MinOf(a, b) == IF a <= b THEN a ELSE b

\* chunk_size of read_with_timeout
chunk_size(maxsize) ==
    IF maxsize # 0 THEN MinOf(default_chunk_size, maxsize + 1) ELSE default_chunk_size

\* mutation: the chunks are returned whole
read_result_untruncated(cs, maxsize) == Join(cs)

\* the value read_with_timeout returns after the loop
read_result(cs, maxsize) ==
    IF maxsize # 0 THEN SubSeq(Join(cs), 1, MinOf(maxsize, Len(Join(cs)))) ELSE Join(cs)

\* the wall-clock test at the end of an iteration of read_with_timeout
total_timeout_exceeded(r, now) == r.timeout # 0 /\ now > r.timeout

NoOut == [kind |-> None, err |-> NoErr, data |-> <<>>]
Returned(data) == [kind |-> "body", err |-> NoErr, data |-> data]
Raised(e) == [kind |-> "error", err |-> e, data |-> <<>>]

InitTransport ==
    /\ tr_pc = "idle"
    /\ tr_req = NoRequest
    /\ stream = <<>>
    /\ body = <<>>
    /\ chunks = <<>>
    /\ bytes_read = 0
    /\ clock = 0
    /\ stall = None
    /\ out = NoOut

\* Urllib3Transport.request is entered: op_started = time.time()
Dispatch ==
    /\ tr_pc = "idle"
    /\ \E r \in Requests, n \in 0..MaxBody :
         /\ tr_req' = r
         /\ body' = Bytes(n)
         /\ stream' = Bytes(n)
    /\ tr_pc' = "connect"
    /\ chunks' = <<>>
    /\ bytes_read' = 0
    /\ clock' = 0
    /\ stall' = None
    /\ out' = NoOut
    /\ UNCHANGED notTransport

\* pool.urlopen connects: after d ticks the connection stands, or urllib3 gives
\* up after connect_timeout ticks and raises inside wrap_transport_error
Connect ==
    /\ tr_pc = "connect"
    /\ \E d \in 0..MaxGap :
         IF tr_req.connect_timeout # 0 /\ d > tr_req.connect_timeout
         THEN /\ tr_pc' = "raised"
              /\ clock' = clock + tr_req.connect_timeout
              /\ stall' = "connect"
              /\ out' = Raised(wrap_transport_error("ConnectTimeoutError"))
         ELSE /\ tr_pc' = "head"
              /\ clock' = clock + d
              /\ UNCHANGED <<stall, out>>
    /\ UNCHANGED <<tr_req, stream, body, chunks, bytes_read>>
    /\ UNCHANGED notTransport

\* pool.urlopen waits for the response head: it arrives after g ticks, or
\* urllib3 gives up after the read timeout and raises inside wrap_transport_error
ResponseHead ==
    /\ tr_pc = "head"
    /\ \E g \in 0..MaxGap :
         IF tr_req.timeout # 0 /\ g > tr_req.timeout
         THEN /\ tr_pc' = "raised"
              /\ clock' = clock + tr_req.timeout
              /\ stall' = "head"
              /\ out' = Raised(wrap_transport_error("ReadTimeoutError"))
         ELSE /\ tr_pc' = "read"
              /\ clock' = clock + g
              /\ UNCHANGED <<stall, out>>
    /\ UNCHANGED <<tr_req, stream, body, chunks, bytes_read>>
    /\ UNCHANGED notTransport

\* read_with_timeout with config_nobody: nothing is read
ReadNobody ==
    /\ tr_pc = "read" /\ tr_req.config_nobody
    /\ tr_pc' = "returned"
    /\ out' = Returned(<<>>)
    /\ UNCHANGED <<tr_req, stream, body, chunks, bytes_read, clock, stall>>
    /\ UNCHANGED notTransport

\* one iteration of the loop of read_with_timeout, called by prepare_response
\* inside the wrap_transport_error block of Grab.request
ReadChunk ==
    /\ tr_pc = "read" /\ ~tr_req.config_nobody
    /\ \E g \in 0..MaxGap :
         IF tr_req.timeout # 0 /\ g > tr_req.timeout
         THEN \* self._response.read raises ReadTimeoutError
              /\ tr_pc' = "raised"
              /\ clock' = clock + tr_req.timeout
              /\ stall' = "body"
              /\ out' = Raised(wrap_transport_error("ReadTimeoutError"))
              /\ UNCHANGED <<stream, chunks, bytes_read>>
         ELSE IF stream = <<>>
         THEN \* the empty chunk of the end of the stream
              /\ tr_pc' = "returned"
              /\ clock' = clock + g
              /\ out' = Returned(read_result(chunks, tr_req.config_body_maxsize))
              /\ UNCHANGED <<stream, chunks, bytes_read, stall>>
         ELSE \E k \in 1..MinOf(chunk_size(tr_req.config_body_maxsize), Len(stream)) :
                LET now == clock + g
                    cs == Append(chunks, SubSeq(stream, 1, k))
                    maxsize == tr_req.config_body_maxsize
                IN /\ clock' = now
                   /\ stream' = SubSeq(stream, k + 1, Len(stream))
                   /\ chunks' = cs
                   /\ bytes_read' = bytes_read + k
                   /\ UNCHANGED stall
                   /\ IF maxsize # 0 /\ bytes_read + k > maxsize
                      THEN /\ tr_pc' = "returned"
                           /\ out' = Returned(read_result(cs, maxsize))
                      ELSE IF total_timeout_exceeded(tr_req, now)
                      THEN /\ tr_pc' = "raised"
                           /\ out' = Raised(wrap_transport_error("GrabTimeoutError"))
                      ELSE /\ tr_pc' = "read"
                           /\ out' = out
    /\ UNCHANGED <<tr_req, body>>
    /\ UNCHANGED notTransport

\* the caller has the Document or the error; the transport is reset
TransportReset ==
    /\ tr_pc \in {"returned", "raised"}
    /\ tr_pc' = "idle"
    /\ tr_req' = NoRequest
    /\ stream' = <<>>
    /\ body' = <<>>
    /\ chunks' = <<>>
    /\ bytes_read' = 0
    /\ clock' = 0
    /\ stall' = None
    /\ out' = NoOut
    /\ UNCHANGED notTransport

NextTransport ==
    \/ Dispatch \/ Connect \/ ResponseHead
    \/ ReadNobody \/ ReadChunk \/ TransportReset

(***************************************************************************)
(* HttpClient.request: the attempt loop with its hook points               *)
(*                                                                         *)
(* Request, Retry and Document objects are identities; 0 is None.  calls   *)
(* lists what the call invoked: hooks by hook point and position,          *)
(* transport.reset, transport.request and prepare_response.                *)
(***************************************************************************)
\* the (None, None) a retry hook returns to signal nothing
NoRetry == <<0, 0>>

\* what a retry hook may return: (None, None) or a (Retry, HttpRequest) pair
RetryResults == {NoRetry} \cup {<<st, r>> : st \in 1..2, r \in 1..2}

Call(kind, idx, rq, doc, res) ==
    [kind |-> kind, idx |-> idx, req |-> rq, doc |-> doc, res |-> res]

\* for func in ext_handlers[point]: func(...) in registration order
HookCalls(point, n, rq, doc) == [i \in 1..n |-> Call(point, i, rq, doc, NoRetry)]

\* mutation: the transport is reset before the request:pre hooks run
dispatch_calls_reset_first(n, rq) ==
    <<Call("reset", 0, 0, 0, NoRetry)>> \o HookCalls("request:pre", n, rq, 0)
    \o <<Call("request", 0, rq, 0, NoRetry)>>

\* lines 64-67 of HttpClient.request: the request:pre hooks, transport.reset(),
\* transport.request(rq, ...)
dispatch_calls(n, rq) ==
    HookCalls("request:pre", n, rq, 0)
    \o <<Call("reset", 0, 0, 0, NoRetry)>>
    \o <<Call("request", 0, rq, 0, NoRetry)>>

\* HttpClient.process_request_result: prepare_response, then the
\* response:post hooks
process_result_calls(n, rq, doc) ==
    <<Call("prepare_response", 0, rq, doc, NoRetry)>>
    \o HookCalls("response:post", n, rq, doc)

\* the position of the first retry hook whose result is not (None, None), 0
\* when there is none
FirstSignal(results) ==
    IF \E i \in DOMAIN results : results[i] # NoRetry
    THEN CHOOSE i \in DOMAIN results :
            results[i] # NoRetry /\ \A j \in 1..(i - 1) : results[j] = NoRetry
    ELSE 0

\* mutation: the hooks are all evaluated before any() looks at the results;
\* item is the result of the last hook
eval_retry_hooks_all(results) ==
    [ called |-> Len(results),
      signal |-> FirstSignal(results) # 0,
      item |-> IF results = <<>> THEN NoRetry ELSE results[Len(results)] ]

\* mutation: the value of any() is dropped and doc is returned
eval_retry_hooks_unheeded(results) ==
    [ called |-> IF FirstSignal(results) = 0 THEN Len(results) ELSE FirstSignal(results),
      signal |-> FALSE,
      item |-> NoRetry ]

\* any((item := func(retry, rq, doc)) != (None, None) for func in
\* ext_handlers["retry"]): the number of hooks called, the value of any() and
\* the item left behind
eval_retry_hooks(results) ==
    LET k == FirstSignal(results)
    IN [ called |-> IF k = 0 THEN Len(results) ELSE k,
         signal |-> k # 0,
         item |-> IF k = 0
                  THEN (IF results = <<>> THEN NoRetry ELSE results[Len(results)])
                  ELSE results[k] ]

\* the calls of the retry hooks evaluated, with what each returned
retry_calls(results, called, st, rq, doc) ==
    [i \in 1..called |-> Call("retry", i, rq, doc, results[i])]

\* all(x(retry) for x in ext_handlers["init-retry"]): the number of hooks
\* called; all() stops at the first hook whose return value is false, as the
\* None of a function without a return statement is.  returns[i] is the truth
\* value of what hook i returns.
eval_init_retry_hooks(returns) ==
    IF \E i \in DOMAIN returns : ~returns[i]
    THEN CHOOSE i \in DOMAIN returns :
            ~returns[i] /\ \A j \in 1..(i - 1) : returns[j]
    ELSE Len(returns)

\* the calls of the init-retry hooks evaluated: hook i is given the Retry
\* object st, whose state holds what the hooks before it seeded, and returns
\* returns[i]
init_retry_calls(returns, called, st) ==
    [i \in 1..called |->
        [kind |-> "init-retry", idx |-> i, req |-> 0, doc |-> 0, res |-> NoRetry,
         retry |-> st, state |-> 1..(i - 1), ret |-> returns[i]]]

HookPoints == {"init-retry", "request:pre", "retry", "response:post"}

InitClient ==
    /\ ext_handlers \in [HookPoints -> 0..MaxHooks]
    /\ cl_pc = "idle"
    /\ cl_req = 0
    /\ cl_retry = 0
    /\ cl_doc = 0
    /\ attempt = 0
    /\ calls = <<>>

\* HttpClient.request(req): retry = Retry(), the init-retry hooks, then the
\* loop is entered
ClientRequest ==
    /\ cl_pc = "idle"
    /\ cl_pc' = "pre"
    /\ cl_req' = 1
    /\ cl_retry' = 1
    /\ cl_doc' = 0
    /\ attempt' = 1
    /\ \E returns \in [1..ext_handlers["init-retry"] -> BOOLEAN] :
         calls' = init_retry_calls(returns, eval_init_retry_hooks(returns), 1)
    /\ UNCHANGED ext_handlers
    /\ UNCHANGED notClient

\* the head of the loop: the hooks, the reset and the dispatch, which returns
\* or raises
ClientDispatch ==
    /\ cl_pc = "pre"
    /\ calls' = calls \o dispatch_calls(ext_handlers["request:pre"], cl_req)
    /\ \E ok \in BOOLEAN : cl_pc' = IF ok THEN "result" ELSE "failed"
    /\ UNCHANGED <<ext_handlers, cl_req, cl_retry, cl_doc, attempt>>
    /\ UNCHANGED notClient

\* doc = self.process_request_result(req): a new Document per attempt
ClientProcessResult ==
    /\ cl_pc = "result"
    /\ cl_doc' = attempt
    /\ calls' = calls \o process_result_calls(ext_handlers["response:post"], cl_req, attempt)
    /\ cl_pc' = "retry"
    /\ UNCHANGED <<ext_handlers, cl_req, cl_retry, attempt>>
    /\ UNCHANGED notClient

\* the retry hooks are evaluated; on a signal the loop continues with the
\* pair returned, else doc is returned.  The hooks signal no retry on the last
\* attempt they allow.
ClientRetry ==
    /\ cl_pc = "retry"
    /\ \E results \in [1..ext_handlers["retry"] -> RetryResults] :
         LET e == eval_retry_hooks(results)
         IN /\ e.signal => attempt < MaxAttempts
            /\ calls' = calls \o retry_calls(results, e.called, cl_retry, cl_req, cl_doc)
            /\ IF e.signal
               THEN /\ cl_retry' = e.item[1]
                    /\ cl_req' = e.item[2]
                    /\ attempt' = attempt + 1
                    /\ cl_pc' = "pre"
               ELSE /\ cl_pc' = "done"
                    /\ UNCHANGED <<cl_retry, cl_req, attempt>>
    /\ UNCHANGED <<ext_handlers, cl_doc>>
    /\ UNCHANGED notClient

\* the call has returned doc or raised; the client is ready for the next call
ClientReturn ==
    /\ cl_pc \in {"done", "failed"}
    /\ cl_pc' = "idle"
    /\ cl_req' = 0
    /\ cl_retry' = 0
    /\ cl_doc' = 0
    /\ attempt' = 0
    /\ calls' = <<>>
    /\ UNCHANGED ext_handlers
    /\ UNCHANGED notClient

NextClient ==
    \/ ClientRequest \/ ClientDispatch \/ ClientProcessResult
    \/ ClientRetry \/ ClientReturn

(***************************************************************************)
(* A session through the redirect loop with its cookies, its proxy pool    *)
(* and its body storage: Grab.prepare_request, Urllib3Transport            *)
(* .process_config, Grab.process_request_result                            *)
(***************************************************************************)
\* urlsplit(url).hostname as the sequence of its labels
hostname(u) ==
    CASE u.host = "a.com" -> <<"a", "com">>
      [] u.host = "b.org" -> <<"b", "org">>
      [] OTHER -> NoHost

\* the URLs of the two sites of the sessions followed
SiteA == Url("abs", "a.com", <<>>)
SiteB == Url("abs", "b.org", <<>>)
BadSite == Url("abs", "bad host", <<>>)

\* the headers option: None or a dict
HeadersOptions == {None, "X-Key"}

\* a server of the proxy pool; proxy_type is None when the list declares none
Server(address, userpwd, proxy_type) ==
    [address |-> address, userpwd |-> userpwd, proxy_type |-> proxy_type]
NoServer == Server(None, None, None)

\* the proxy lists a caller loads
ProxyLists ==
    { <<>>,
      <<Server("p1:80", "u1:pw", "http"), Server("p2:80", None, "socks5")>>,
      <<Server("p1:80", "u1:pw", "http"), Server("p3:80", "u3:pw", None)>> }

\* the servers get_random_server may return
Servers(pl) == IF pl = <<>> THEN {NoServer} ELSE {pl[i] : i \in 1..Len(pl)}

\* default_config() with the options of the session followed here; the body
\* storage options are those process_config reads
session_default_config ==
    [ method |-> None,
      url |-> NoUrl,
      proxy |-> None,
      proxy_type |-> None,
      proxy_userpwd |-> None,
      headers |-> None,
      cookies |-> NoCookiesOption,
      post |-> None,
      multipart_post |-> None,
      redirect_limit |-> DefaultRedirectLimit,
      follow_location |-> TRUE,
      reuse_cookies |-> TRUE,
      proxy_auto_change |-> TRUE,
      body_inmemory |-> TRUE,
      body_storage_dir |-> None ]

\* the descriptor the transport holds: Request(...)
NoDescriptor ==
    [ url |-> NoUrl, method |-> None, data |-> None, headers |-> None, cookie |-> {},
      proxy |-> None, proxy_type |-> None, proxy_userpwd |-> None, response_path |-> FALSE ]

\* mutation: the address is stored before the type of the server is looked at
change_proxy_address_first(cfg, server) ==
    IF server.proxy_type = None
    THEN [err |-> Err("GrabMisuseError", "proxy type"),
          config |-> [cfg EXCEPT !.proxy = server.address]]
    ELSE setup(cfg, [proxy |-> server.address,
                     proxy_userpwd |-> server.userpwd,
                     proxy_type |-> server.proxy_type])

\* Grab.change_proxy with the server the list returned
change_proxy(cfg, server) ==
    IF server.proxy_type = None
    THEN [err |-> Err("GrabMisuseError", "proxy type"), config |-> cfg]
    ELSE setup(cfg, [proxy |-> server.address,
                     proxy_userpwd |-> server.userpwd,
                     proxy_type |-> server.proxy_type])

\* mutation: a missing storage directory is not noticed
body_storage_undefined_unchecked(cfg) == FALSE

\* lines 222-226 of process_config: the body goes to a file and no directory
\* is configured for it
body_storage_undefined(cfg) == ~cfg.body_inmemory /\ cfg.body_storage_dir = None

\* Urllib3Transport.process_config after the URL is normalized: the error
\* raised, the descriptor built, the jar afterwards and the number of body
\* files allocated
process_config_storage(cfg, jar, method) ==
    IF body_storage_undefined(cfg)
    THEN [err |-> Err("GrabMisuseError", "body_storage_dir"),
          req |-> NoDescriptor, jar |-> jar, files |-> 0]
    ELSE LET files == IF cfg.body_inmemory THEN 0 ELSE 1
             p == process_config_post(cfg, method)
         IN IF p.err # NoErr
            THEN [err |-> p.err, req |-> NoDescriptor, jar |-> jar, files |-> files]
            ELSE LET ck == process_cookie_options(jar, cfg.cookies, hostname(cfg.url))
                 IN [err |-> NoErr,
                     req |-> [ url |-> cfg.url, method |-> method, data |-> p.data,
                               headers |-> cfg.headers, cookie |-> ck.hdr,
                               proxy |-> cfg.proxy, proxy_type |-> cfg.proxy_type,
                               proxy_userpwd |-> cfg.proxy_userpwd,
                               response_path |-> ~cfg.body_inmemory ],
                     jar |-> ck.jar, files |-> files]

\* Urllib3Transport.process_config with the session's jar
process_config_session(cfg, jar) ==
    IF NormalizeFails(cfg.url)
    THEN [err |-> Err("GrabInvalidUrl", "normalize_url"),
          req |-> NoDescriptor, jar |-> jar, files |-> 0]
    ELSE process_config_storage(cfg, jar, detect_request_method(cfg))

\* Grab.prepare_request(**kwargs) of the session: setup, change_proxy with the
\* server the list returns, process_config
prepare_request_session(cfg, jar, pl, kwargs, server) ==
    LET s == IF kwargs = NoKwargs THEN [err |-> NoErr, config |-> cfg]
             ELSE setup(cfg, kwargs)
    IN IF s.err # NoErr
       THEN [err |-> s.err, config |-> s.config, req |-> NoDescriptor, jar |-> jar, files |-> 0]
       ELSE LET c == IF Len(pl) # 0 /\ s.config.proxy_auto_change
                     THEN change_proxy(s.config, server)
                     ELSE [err |-> NoErr, config |-> s.config]
            IN IF c.err # NoErr
               THEN [err |-> c.err, config |-> c.config, req |-> NoDescriptor,
                     jar |-> jar, files |-> 0]
               ELSE LET p == process_config_session(c.config, jar)
                    IN [err |-> p.err, config |-> c.config, req |-> p.req,
                        jar |-> p.jar, files |-> p.files]

\* the Set-Cookie headers of a response: name/value pairs without a Domain
\* attribute
SetCookies == {{}, {<<"a", 1>>}, {<<"a", 3>>}}

\* Urllib3Transport.extract_cookiejar: the cookies of the response, each with
\* the host of the request as its domain
extract_cookiejar(pairs, u) ==
    {[name |-> nv[1], value |-> nv[2], domain |-> hostname(u)] : nv \in pairs}

\* CookieManager.update(cookies): every cookie replaces the one stored under
\* the same name and domain
cookies_update(jar, other) ==
    {c \in jar : ~\E o \in other : o.name = c.name /\ o.domain = c.domain} \cup other

\* mutation: the received cookies are merged whatever reuse_cookies says
update_cookies_always(cfg, jar, received) == cookies_update(jar, received)

\* lines 288-289 of Grab.process_request_result
update_cookies(cfg, jar, received) ==
    IF cfg.reuse_cookies THEN cookies_update(jar, received) ELSE jar

\* the Document of an exchange: prepare_response
Document(rsp, rq, n) ==
    [ code |-> rsp.code, location |-> rsp.location,
      cookies |-> extract_cookiejar(rsp.set_cookie, rq.url), seq |-> n ]
NoDocument == [code |-> 0, location |-> NoUrl, cookies |-> {}, seq |-> 0]

\* mutation: the Document is built and nothing is merged into the jar
process_request_result_discards(cfg, jar, rsp, rq, n) ==
    [ config |-> reset_temporary_options(cfg), jar |-> jar, doc |-> Document(rsp, rq, n) ]

\* Grab.process_request_result of the session: the config and the jar
\* afterwards and the Document
process_request_result_session(cfg, jar, rsp, rq, n) ==
    LET c == reset_temporary_options(cfg)
        doc == Document(rsp, rq, n)
    IN [ config |-> c, jar |-> update_cookies(c, jar, doc.cookies), doc |-> doc ]

\* the responses a server answers with
SessionResponses ==
    { [code |-> c, location |-> l, set_cookie |-> sc] :
        c \in {200} \cup RedirectCodes, l \in {NoUrl, SiteA, SiteB}, sc \in SetCookies }

\* mutation: the option is emptied and the jar keeps its cookies
clear_cookies_keeps_jar(cfg, jar) ==
    [config |-> [cfg EXCEPT !.cookies = NoCookiesOption], jar |-> jar]

\* Grab.clear_cookies: the config and the jar afterwards
clear_cookies(cfg, jar) ==
    [config |-> [cfg EXCEPT !.cookies = NoCookiesOption], jar |-> {}]

\* the overrides of a setup call name at least one cookie
configures_cookies(kwargs) ==
    "cookies" \in DOMAIN kwargs /\ kwargs["cookies"] # NoCookiesOption

InitHops ==
    /\ g_config = session_default_config
    /\ g_cookies = {}
    /\ g_proxylist = <<>>
    /\ g_pc = "idle"
    /\ g_redir_count = 0
    /\ g_request = NoDescriptor
    /\ g_doc = NoDocument
    /\ g_err = NoErr
    /\ g_hops = <<>>
    /\ g_prepares = 0
    /\ g_files = 0
    /\ g_cleared = FALSE

\* g.setup(**kwargs) between two calls
SessionSetup(kwargs) ==
    /\ g_pc = "idle"
    /\ setup(g_config, kwargs).config # g_config
    /\ g_config' = setup(g_config, kwargs).config
    /\ g_cleared' = (g_cleared /\ ~configures_cookies(kwargs))
    /\ UNCHANGED <<g_cookies, g_proxylist, g_pc, g_redir_count, g_request, g_doc, g_err,
                   g_hops, g_prepares, g_files>>
    /\ UNCHANGED notHops

\* g.proxylist is loaded with a list of servers
SessionLoadProxylist ==
    /\ g_pc = "idle"
    /\ \E pl \in ProxyLists : pl # g_proxylist /\ g_proxylist' = pl
    /\ UNCHANGED <<g_config, g_cookies, g_pc, g_redir_count, g_request, g_doc, g_err,
                   g_hops, g_prepares, g_files, g_cleared>>
    /\ UNCHANGED notHops

\* g.clear_cookies()
SessionClearCookies ==
    /\ g_pc = "idle"
    /\ g_config.cookies # NoCookiesOption \/ g_cookies # {}
    /\ g_config' = clear_cookies(g_config, g_cookies).config
    /\ g_cookies' = clear_cookies(g_config, g_cookies).jar
    /\ g_cleared' = TRUE
    /\ UNCHANGED <<g_proxylist, g_pc, g_redir_count, g_request, g_doc, g_err,
                   g_hops, g_prepares, g_files>>
    /\ UNCHANGED notHops

\* Grab.request(**kwargs) up to the loop: lines 231-234
SessionRequest(kwargs) ==
    /\ g_pc = "idle"
    /\ \E server \in Servers(g_proxylist) :
         LET p == prepare_request_session(g_config, g_cookies, g_proxylist, kwargs, server)
         IN /\ g_config' = p.config
            /\ g_cookies' = p.jar
            /\ g_request' = p.req
            /\ g_err' = p.err
            /\ g_files' = p.files
            /\ g_pc' = IF p.err = NoErr THEN "dispatching" ELSE "failed"
    /\ g_redir_count' = 0
    /\ g_doc' = NoDocument
    /\ g_hops' = <<>>
    /\ g_prepares' = 1
    /\ UNCHANGED <<g_proxylist, g_cleared>>
    /\ UNCHANGED notHops

\* Transport.request() raises a classified error: lines 237-241
SessionTransportError ==
    /\ g_pc = "dispatching"
    /\ \E e \in TransportErrors : g_err' = Err(e, "transport")
    /\ g_config' = reset_temporary_options(g_config)
    /\ g_pc' = "failed"
    /\ UNCHANGED <<g_cookies, g_proxylist, g_redir_count, g_request, g_doc, g_hops,
                   g_prepares, g_files, g_cleared>>
    /\ UNCHANGED notHops

\* Transport.request() returns with rsp and the else branch of the loop runs:
\* lines 243-254
SessionExchange(rsp) ==
    /\ g_pc = "dispatching"
    /\ Followable(g_config, rsp) => Len(g_hops) < MaxHops
    /\ LET r == process_request_result_session(g_config, g_cookies, rsp, g_request,
                                               Len(g_hops) + 1)
           redir_url == find_redirect_url(r.config, r.doc)
       IN /\ g_hops' = Append(g_hops, [req |-> g_request, cookies |-> r.doc.cookies])
          /\ g_doc' = r.doc
          /\ IF redir_url = NoUrl
             THEN /\ g_pc' = "done"
                  /\ g_config' = r.config
                  /\ g_cookies' = r.jar
                  /\ UNCHANGED <<g_redir_count, g_request, g_err, g_prepares, g_files>>
             ELSE /\ g_redir_count' = g_redir_count + 1
                  /\ IF too_many_redirects(g_redir_count + 1, r.config)
                     THEN /\ g_err' = Err("GrabTooManyRedirectsError", "redirect_limit")
                          /\ g_pc' = "failed"
                          /\ g_config' = r.config
                          /\ g_cookies' = r.jar
                          /\ UNCHANGED <<g_request, g_prepares, g_files>>
                     ELSE \E server \in Servers(g_proxylist) :
                            LET p == prepare_request_session(
                                        r.config, r.jar, g_proxylist,
                                        One("url", make_url_absolute(r.config, redir_url)),
                                        server)
                            IN /\ g_config' = p.config
                               /\ g_cookies' = p.jar
                               /\ g_request' = p.req
                               /\ g_err' = p.err
                               /\ g_files' = g_files + p.files
                               /\ g_prepares' = g_prepares + 1
                               /\ g_pc' = IF p.err = NoErr THEN "dispatching" ELSE "failed"
    /\ g_cleared' = (g_cleared /\ rsp.set_cookie = {})
    /\ UNCHANGED g_proxylist
    /\ UNCHANGED notHops

\* the call ends: the Document is returned or the error raised to the caller
SessionReturn ==
    /\ g_pc \in {"done", "failed"}
    /\ g_pc' = "idle"
    /\ g_request' = NoDescriptor
    /\ g_doc' = NoDocument
    /\ g_err' = NoErr
    /\ g_hops' = <<>>
    /\ g_prepares' = 0
    /\ g_redir_count' = 0
    /\ g_files' = 0
    /\ UNCHANGED <<g_config, g_cookies, g_proxylist, g_cleared>>
    /\ UNCHANGED notHops

\* what a caller passes to request(): a URL, with or without a POST payload
SessionCalls ==
    {One("url", u) : u \in {SiteA, SiteB}}
    \cup {[url |-> u, method |-> m, post |-> "p1"] : u \in {SiteA}, m \in {"POST", "PUT"}}

\* sessions that configure headers and cookies and follow redirects
NextHops ==
    \/ \E h \in HeadersOptions : SessionSetup(One("headers", h))
    \/ \E c \in {NoCookiesOption, [n \in {"a"} |-> 2]} : SessionSetup(One("cookies", c))
    \/ \E b \in BOOLEAN : SessionSetup(One("reuse_cookies", b))
    \/ SessionClearCookies
    \/ \E kw \in SessionCalls : SessionRequest(kw)
    \/ SessionTransportError
    \/ \E rsp \in SessionResponses : SessionExchange(rsp)
    \/ SessionReturn

\* sessions that configure a proxy pool and the body storage
NextProxy ==
    \/ SessionLoadProxylist
    \/ \E b \in BOOLEAN : SessionSetup(One("proxy_auto_change", b))
    \/ \E b \in BOOLEAN : SessionSetup(One("body_inmemory", b))
    \/ \E d \in {None, "dir"} : SessionSetup(One("body_storage_dir", d))
    \/ \E u \in {SiteA, BadSite} : SessionRequest(One("url", u))
    \/ SessionRequest([url |-> SiteA, method |-> "POST"])
    \/ SessionTransportError
    \/ \E rsp \in {x \in SessionResponses : x.set_cookie = {}} : SessionExchange(rsp)
    \/ SessionReturn

(***************************************************************************)
(* A session and its clone, each running request() on a thread of its own  *)
(*                                                                         *)
(* Session 1 is constructed with Grab(), session 2 is session 1.clone().    *)
(* A descriptor is named by the session that built it, a response by the   *)
(* descriptor it answers; 0 is None.                                       *)
(***************************************************************************)
ThreadSessions == {1, 2}

\* Grab.process_transport_option: None makes a new transport, an instance is
\* taken as it is
process_transport_option(transport, default_transport) ==
    IF transport = 0 THEN default_transport ELSE transport

InitThreads ==
    /\ th_transport = [s \in ThreadSessions |->
                         IF s = 1 THEN process_transport_option(0, 1) ELSE 0]
    /\ th_pc = [s \in ThreadSessions |-> "idle"]
    /\ th_request = [t \in ThreadSessions |-> 0]
    /\ th_response = [t \in ThreadSessions |-> 0]
    /\ th_cookies = [s \in ThreadSessions |-> {}]
    /\ th_sent = [s \in ThreadSessions |-> 0]
    /\ th_got = [s \in ThreadSessions |-> 0]

\* session 2 = session 1.clone(): Grab(transport=self.transport), whose
\* constructor resets the transport, and a deep copy of the cookie manager
ThreadClone ==
    /\ th_transport[2] = 0
    /\ th_pc[1] = "idle"
    /\ LET t == process_transport_option(th_transport[1], 2)
       IN /\ th_transport' = [th_transport EXCEPT ![2] = t]
          /\ th_request' = [th_request EXCEPT ![t] = 0]
          /\ th_response' = [th_response EXCEPT ![t] = 0]
    /\ th_cookies' = [th_cookies EXCEPT ![2] = th_cookies[1]]
    /\ UNCHANGED <<th_pc, th_sent, th_got>>
    /\ UNCHANGED notThreads

\* prepare_request of session s: the transport is reset and process_config
\* stores the descriptor in it
ThreadPrepare(s) ==
    /\ th_transport[s] # 0
    /\ th_pc[s] = "idle"
    /\ th_request' = [th_request EXCEPT ![th_transport[s]] = s]
    /\ th_response' = [th_response EXCEPT ![th_transport[s]] = 0]
    /\ th_pc' = [th_pc EXCEPT ![s] = "prepared"]
    /\ UNCHANGED <<th_transport, th_cookies, th_sent, th_got>>
    /\ UNCHANGED notThreads

\* Transport.request() is entered: req = self._request, and pool.urlopen
\* sends it; with no descriptor in the transport the attribute access fails
ThreadSend(s) ==
    /\ th_pc[s] = "prepared"
    /\ LET rq == th_request[th_transport[s]]
       IN IF rq = 0
          THEN /\ th_pc' = [th_pc EXCEPT ![s] = "failed"]
               /\ UNCHANGED th_sent
          ELSE /\ th_pc' = [th_pc EXCEPT ![s] = "sending"]
               /\ th_sent' = [th_sent EXCEPT ![s] = rq]
    /\ UNCHANGED <<th_transport, th_request, th_response, th_cookies, th_got>>
    /\ UNCHANGED notThreads

\* pool.urlopen returns the response to the descriptor sent:
\* self._response = res
ThreadReceive(s) ==
    /\ th_pc[s] = "sending"
    /\ th_response' = [th_response EXCEPT ![th_transport[s]] = th_sent[s]]
    /\ th_pc' = [th_pc EXCEPT ![s] = "received"]
    /\ UNCHANGED <<th_transport, th_request, th_cookies, th_sent, th_got>>
    /\ UNCHANGED notThreads

\* process_request_result of session s: prepare_response builds the Document
\* from the response the transport holds, and its cookies are merged into the
\* jar of the session; with no response or no descriptor in the transport the
\* call fails on the missing object
ThreadProcess(s) ==
    /\ th_pc[s] = "received"
    /\ LET rsp == th_response[th_transport[s]]
       IN IF rsp = 0 \/ th_request[th_transport[s]] = 0
          THEN /\ th_pc' = [th_pc EXCEPT ![s] = "failed"]
               /\ UNCHANGED <<th_got, th_cookies>>
          ELSE /\ th_pc' = [th_pc EXCEPT ![s] = "done"]
               /\ th_got' = [th_got EXCEPT ![s] = rsp]
               /\ th_cookies' = [th_cookies EXCEPT ![s] = @ \cup {rsp}]
    /\ UNCHANGED <<th_transport, th_request, th_response, th_sent>>
    /\ UNCHANGED notThreads

\* the call of session s returns its Document or raises
ThreadReturn(s) ==
    /\ th_pc[s] \in {"done", "failed"}
    /\ th_pc' = [th_pc EXCEPT ![s] = "idle"]
    /\ th_sent' = [th_sent EXCEPT ![s] = 0]
    /\ th_got' = [th_got EXCEPT ![s] = 0]
    /\ UNCHANGED <<th_transport, th_request, th_response, th_cookies>>
    /\ UNCHANGED notThreads

NextThreads ==
    \/ ThreadClone
    \/ \E s \in ThreadSessions : ThreadPrepare(s)
    \/ \E s \in ThreadSessions : ThreadSend(s)
    \/ \E s \in ThreadSessions : ThreadReceive(s)
    \/ \E s \in ThreadSessions : ThreadProcess(s)
    \/ \E s \in ThreadSessions : ThreadReturn(s)

(***************************************************************************)
(* One transport instance through requests in a row: its pool, its         *)
(* request-scoped fields, the connections of its responses and the body    *)
(* files: Urllib3Transport.__init__, reset, process_config (body storage), *)
(* request, prepare_response                                               *)
(*                                                                         *)
(* Pool managers and responses are identities; a path is its directory,    *)
(* its file name and, for a name made by mkstemp, the random part of the   *)
(* name; a body is the sequence of its byte positions.                     *)
(***************************************************************************)
StorageDir == "d1"
StorageFilename == "music.mp3"

\* the random parts of the names tempfile.mkstemp gives new files
TempNames == 1..MaxRequests

\* os.path.join(storage_dir, storage_filename), and the path mkstemp returns
JoinPath(storage_dir, storage_filename) == <<storage_dir, storage_filename, 0>>
TempPath(storage_dir, name) == <<storage_dir, "tmp", name>>

NoPath == <<>>

\* the options of a session that process_config and request read here
TransportConfigs ==
    { c \in [ proxy : {None, "p1"}, proxy_type : {None, "http", "socks5"},
              body_inmemory : BOOLEAN, body_storage_dir : {StorageDir},
              body_storage_filename : {None, StorageFilename},
              nobody : BOOLEAN, body_maxsize : {0, MaxCap} ] :
        /\ (c.proxy = None) <=> (c.proxy_type = None)
        /\ c.body_inmemory => c.body_storage_filename = None
        /\ c.nobody => c.body_maxsize = 0 }

\* sessions with and without a proxy, their bodies in memory or in the file
\* of a configured name
PoolConfigs ==
    { c \in TransportConfigs : c.body_inmemory \/ c.body_storage_filename # None }

\* sessions without a proxy, their bodies in memory or in files
FileConfigs == { c \in TransportConfigs : c.proxy = None }

\* the fields of Request that request and prepare_response read here
PoolRequest(proxy, proxy_type, response_path, nobody, maxsize) ==
    [ proxy |-> proxy, proxy_type |-> proxy_type, response_path |-> response_path,
      config_nobody |-> nobody, config_body_maxsize |-> maxsize ]

NoPoolRequest == PoolRequest(None, None, NoPath, FALSE, 0)

\* Urllib3Transport.__init__: the pool is created, the fields are empty
new_transport(pool) ==
    [ pool |-> pool, request_head |-> <<>>, request_body |-> <<>>,
      request_log |-> <<>>, request |-> NoPoolRequest, response |-> 0 ]

\* mutation: reset builds a new pool
transport_reset_new_pool(tr) == new_transport(tr.pool + 1)

\* Urllib3Transport.reset
transport_reset(tr) ==
    [ tr EXCEPT !.request_head = <<>>, !.request_body = <<>>, !.request_log = <<>>,
                !.response = 0, !.request = NoPoolRequest ]

\* the file at path holds data, whatever it held
write_file(disk, path, data) ==
    [p \in DOMAIN disk \cup {path} |-> IF p = path THEN data ELSE disk[p]]

\* mutation: mkstemp hands out the first name again
setup_body_file_same_name(disk, storage_dir, storage_filename, name) ==
    IF storage_filename = None
    THEN [ path |-> TempPath(storage_dir, 1),
           disk |-> write_file(disk, TempPath(storage_dir, 1), <<>>) ]
    ELSE [ path |-> JoinPath(storage_dir, storage_filename), disk |-> disk ]

\* BaseTransport.setup_body_file: mkstemp creates an empty file under a name
\* no file of the directory has, or the configured name is joined to the
\* directory
setup_body_file(disk, storage_dir, storage_filename, name) ==
    IF storage_filename = None
    THEN [ path |-> TempPath(storage_dir, name),
           disk |-> write_file(disk, TempPath(storage_dir, name), <<>>) ]
    ELSE [ path |-> JoinPath(storage_dir, storage_filename), disk |-> disk ]

\* process_config, the body storage and the descriptor: lines 221-231, 262-275
pool_process_config(cfg, disk, name) ==
    LET f == IF cfg.body_inmemory
             THEN [path |-> NoPath, disk |-> disk]
             ELSE setup_body_file(disk, cfg.body_storage_dir,
                                  cfg.body_storage_filename, name)
    IN [ request |-> PoolRequest(cfg.proxy, cfg.proxy_type, f.path,
                                 cfg.nobody, cfg.body_maxsize),
         disk |-> f.disk ]

\* the pool of Urllib3Transport.request: a manager built for the dispatch when
\* the descriptor names a proxy, else self.pool
dispatch_pool(tr, rq, made) == IF rq.proxy # None THEN made + 1 ELSE tr.pool

\* HTTPResponse.release_conn of urllib3: the connection goes back to its pool
\* unless it already has
release_conn(c) ==
    IF c.conn = "held" THEN [c EXCEPT !.conn = "pooled", !.returns = @ + 1] ELSE c

\* what read_with_timeout returns of the bytes on the wire
pool_read(rq, wire) ==
    IF rq.config_nobody THEN <<>> ELSE read_result(<<wire>>, rq.config_body_maxsize)

\* the stream was read to its end
read_to_end(rq, wire) ==
    /\ ~rq.config_nobody
    /\ rq.config_body_maxsize = 0 \/ Len(wire) <= rq.config_body_maxsize

NoMemoryBody == [buffered |-> FALSE, data |-> <<>>]
MemoryBody(data) == [buffered |-> TRUE, data |-> data]

PoolDocument(code, path, membody) ==
    [kind |-> "document", code |-> code, body_path |-> path, body |-> membody, err |-> None]
PoolError(e) ==
    [kind |-> "error", code |-> 0, body_path |-> NoPath, body |-> NoMemoryBody, err |-> e]
NoPoolDocument ==
    [kind |-> None, code |-> 0, body_path |-> NoPath, body |-> NoMemoryBody, err |-> None]

\* where prepare_response may fail: the read of the body, the open of the body
\* file, the parse of the headers, the extraction of the cookies
PrepareFaults == {"none", "read", "open", "parse", "cookies"}

\* the try block of prepare_response: the body goes to the file of
\* response_path or to the Document, then the headers are parsed and the
\* cookies extracted; early is whether urllib3 put the connection back when
\* the stream was read to its end
prepare_response_try(rq, c, wire, disk, fault, early) ==
    LET data == pool_read(rq, wire.body)
        path == rq.response_path
        c1 == IF early /\ read_to_end(rq, wire.body) /\ fault \notin {"read", "open"}
              THEN release_conn(c) ELSE c
        d1 == IF path = NoPath \/ fault = "open" THEN disk
              ELSE IF fault = "read" THEN write_file(disk, path, <<>>)
              ELSE write_file(disk, path, data)
    IN [ doc |-> IF fault = "read" THEN PoolError("GrabTimeoutError")
                 ELSE IF fault # "none" THEN PoolError(fault)
                 ELSE IF path # NoPath THEN PoolDocument(wire.code, path, NoMemoryBody)
                 ELSE PoolDocument(wire.code, NoPath, MemoryBody(data)),
         conn |-> c1,
         disk |-> d1 ]

\* mutation: the connection is released on the way to return only
prepare_response_no_finally(rq, c, wire, disk, fault, early) ==
    LET r == prepare_response_try(rq, c, wire, disk, fault, early)
    IN [r EXCEPT !.conn = IF r.doc.kind = "document" THEN release_conn(r.conn) ELSE r.conn]

\* Urllib3Transport.prepare_response: the try block, then release_conn in the
\* finally clause
prepare_response_body(rq, c, wire, disk, fault, early) ==
    LET r == prepare_response_try(rq, c, wire, disk, fault, early)
    IN [r EXCEPT !.conn = release_conn(r.conn)]

\* what the log keeps of a dispatch
Exchange(pool, rq, conn) ==
    [ pool |-> pool, direct |-> rq.proxy = None, path |-> rq.response_path,
      conn |-> conn, returns |-> 0 ]

Wire(code, n) == [code |-> code, body |-> Bytes(n)]
NoWire == Wire(0, 0)

\* the name mkstemp gives the next file of the directory: one no file has
NewTempName(disk, storage_dir) ==
    CHOOSE n \in TempNames :
        /\ TempPath(storage_dir, n) \notin DOMAIN disk
        /\ \A m \in 1..(n - 1) : TempPath(storage_dir, m) \in DOMAIN disk

\* a session that keeps bodies in memory and has no proxy
PlainConfig ==
    [ proxy |-> None, proxy_type |-> None, body_inmemory |-> TRUE,
      body_storage_dir |-> StorageDir, body_storage_filename |-> None,
      nobody |-> FALSE, body_maxsize |-> 0 ]

InitPool ==
    /\ t_transport = new_transport(1)
    /\ t_config = PlainConfig
    /\ t_pc = "idle"
    /\ t_made = 1
    /\ t_log = <<>>
    /\ t_wire = NoWire
    /\ t_disk = [p \in {} |-> <<>>]
    /\ t_doc = NoPoolDocument

\* Grab.prepare_request on the transport: reset(), then process_config
PoolPrepare(cfgs) ==
    /\ t_pc \in {"idle", "done", "failed"}
    /\ Len(t_log) < MaxRequests
    /\ \E cfg \in cfgs :
         LET p == pool_process_config(cfg, t_disk,
                                      NewTempName(t_disk, cfg.body_storage_dir))
         IN /\ t_transport' = [transport_reset(t_transport) EXCEPT !.request = p.request]
            /\ t_disk' = p.disk
            /\ t_config' = cfg
    /\ t_pc' = "prepared"
    /\ t_doc' = NoPoolDocument
    /\ t_wire' = NoWire
    /\ UNCHANGED <<t_made, t_log>>
    /\ UNCHANGED notPool

\* Urllib3Transport.request: urlopen on the pool of the dispatch returns a
\* response that holds a connection, or raises
PoolDispatch ==
    /\ t_pc = "prepared"
    /\ LET rq == t_transport.request
           pool == dispatch_pool(t_transport, rq, t_made)
       IN /\ t_made' = IF pool = t_made + 1 THEN t_made + 1 ELSE t_made
          /\ \/ \E code \in {200, 302}, n \in 0..MaxBody :
                  /\ t_log' = Append(t_log, Exchange(pool, rq, "held"))
                  /\ t_transport' = [t_transport EXCEPT !.request_head = <<>>,
                                                        !.request_body = <<>>,
                                                        !.request_log = <<>>,
                                                        !.response = Len(t_log) + 1]
                  /\ t_wire' = Wire(code, n)
                  /\ t_pc' = "responded"
                  /\ UNCHANGED t_doc
             \/ /\ t_log' = Append(t_log, Exchange(pool, rq, "none"))
                /\ t_pc' = "failed"
                /\ t_doc' = PoolError(wrap_transport_error("ProtocolError").kind)
                /\ UNCHANGED <<t_transport, t_wire>>
    /\ UNCHANGED <<t_disk, t_config>>
    /\ UNCHANGED notPool

\* Grab.process_request_result on the transport: prepare_response returns the
\* Document or raises
PoolPrepareResponse ==
    /\ t_pc = "responded"
    /\ \E fault \in PrepareFaults, early \in BOOLEAN :
         /\ fault = "open" => t_transport.request.response_path # NoPath
         /\ LET i == t_transport.response
                r == prepare_response_body(t_transport.request, t_log[i], t_wire,
                                           t_disk, fault, early)
            IN /\ t_log' = [t_log EXCEPT ![i] = r.conn]
               /\ t_disk' = r.disk
               /\ t_doc' = r.doc
               /\ t_pc' = IF r.doc.kind = "document" THEN "done" ELSE "failed"
    /\ UNCHANGED <<t_transport, t_config, t_made, t_wire>>
    /\ UNCHANGED notPool

\* Grab.reset() between two requests: Urllib3Transport.reset
PoolReset ==
    /\ t_pc \in {"done", "failed"}
    /\ t_transport' = transport_reset(t_transport)
    /\ t_pc' = "idle"
    /\ UNCHANGED <<t_config, t_made, t_log, t_wire, t_disk, t_doc>>
    /\ UNCHANGED notPool

NextPool == PoolPrepare(PoolConfigs) \/ PoolDispatch \/ PoolPrepareResponse \/ PoolReset

NextFiles == PoolPrepare(FileConfigs) \/ PoolDispatch \/ PoolPrepareResponse \/ PoolReset

(***************************************************************************)
(* Specifications                                                          *)
(***************************************************************************)
Next ==
    \/ Setup \/ RequestCall
    \/ TransportError \/ TransportForeignError \/ TransportParseError
    \/ TransportResponse
    \/ Classify \/ Return

\* one caller making one call at a time, on a session whose redirect_limit it
\* sets or on a client: the session moves while no client call is in progress,
\* the client while no session operation is
CallsSetup ==
    /\ cl_pc = "idle"
    /\ \E l \in OptionValues("redirect_limit") : DoSetup(One("redirect_limit", l))

CallsRequest ==
    /\ cl_pc = "idle"
    /\ \E u \in UrlArgs : DoRequest(One("url", u))

CallsTransportError == cl_pc = "idle" /\ TransportError

CallsTransportResponse == cl_pc = "idle" /\ TransportResponse

CallsClassify == cl_pc = "idle" /\ Classify

CallsReturn == cl_pc = "idle" /\ Return

CallsClient == Idle /\ NextClient

NextCalls ==
    \/ CallsSetup \/ CallsRequest
    \/ CallsTransportError \/ CallsTransportResponse
    \/ CallsClassify \/ CallsReturn
    \/ CallsClient

\* the client of the engine, the store, the cookie and the transport
\* specifications has no hooks
Init ==
    /\ InitEngine /\ InitStore /\ InitCookies /\ InitTransport /\ InitHops /\ InitThreads
    /\ InitPool
    /\ InitClient /\ ext_handlers = [h \in HookPoints |-> 0]

\* a client with any number of hooks registered at each hook point
InitAnyClient ==
    /\ InitEngine /\ InitStore /\ InitCookies /\ InitTransport /\ InitHops /\ InitThreads
    /\ InitPool
    /\ InitClient

\* one session running setup and request
Spec == Init /\ [][Next]_vars

\* sessions created, cloned, dumped, loaded, configured and mutated
SpecStore == Init /\ [][NextStore]_vars

\* one session whose cookies option is set and cleared and whose requests are prepared
SpecCookies == Init /\ [][NextCookies]_vars

\* one dispatch after the other: connect, response head, body read
SpecTransport == Init /\ [][NextTransport]_vars

\* one HttpClient running request calls
SpecClient == InitAnyClient /\ [][NextClient]_vars

\* the thread that runs a call keeps running: a call in progress takes its
\* next step
SpecClientLive == InitAnyClient /\ [][NextClient]_vars /\ WF_vars(NextClient)

\* a client with one retry hook and any number of init-retry hooks
InitCalls ==
    /\ InitAnyClient
    /\ ext_handlers["retry"] = 1
    /\ ext_handlers["request:pre"] = 0 /\ ext_handlers["response:post"] = 0

\* one caller making calls on a session and on a client, one at a time
SpecCalls == InitCalls /\ [][NextCalls]_vars

\* one session with headers and cookies through redirect chains
SpecHops == Init /\ [][NextHops]_vars

\* one session with a proxy pool and body storage through redirect chains
SpecProxy == Init /\ [][NextProxy]_vars

\* a session and its clone running request() concurrently
SpecThreads == Init /\ [][NextThreads]_vars

\* one transport instance dispatching requests in a row
SpecPool == Init /\ [][NextPool]_vars

\* one transport instance storing the bodies of requests in a row
SpecFiles == Init /\ [][NextFiles]_vars

(***************************************************************************)
(* Redirect loop                                                           *)
(***************************************************************************)
RelativeLocation(l) == l.kind \in {"path", "rel"}

\* C1: with follow_location enabled and redirect_limit >= 1, a first response
\* with status 302 and a relative Location makes the engine dispatch a second
\* request whose URL is the Location resolved against the URL of the first
\* request, and the Document returned is the one built from the second response.
C1_RelativeRedirectFollowed ==
    /\ [][ (/\ pc = "classifying" /\ Len(sent) = 1 /\ ~response.fault
            /\ response.code = 302 /\ RelativeLocation(response.location)
            /\ config.follow_location /\ config.redirect_limit >= 1)
           => (/\ pc' = "dispatching"
               /\ req'.url = urljoin(sent[1], response.location)
               /\ req'.url.kind = "abs" /\ req'.url.host = sent[1].host) ]_vars
    /\ [][ (pc = "dispatching" /\ pc' # "dispatching") => sent' = Append(sent, req.url) ]_vars
    /\ [] ( (/\ pc = "done" /\ Len(sent) = 2
             /\ first.code = 302 /\ RelativeLocation(first.location))
            => (/\ sent[2] = urljoin(sent[1], first.location)
                /\ result.seq = 2
                /\ result.code = response.code
                /\ result.location = response.location) )

\* C1 witness: a call that got 302 with Location /next from h1/d/p, requested
\* h1/next and returned the Document of that second exchange
C1_Witness ==
    /\ pc = "done" /\ Len(sent) = 2
    /\ first.code = 302 /\ first.location = Url("path", "", <<"next">>)
    /\ sent[1] = Url("abs", "h1", <<"d", "p">>)
    /\ sent[2] = Url("abs", "h1", <<"next">>)
    /\ result.seq = 2 /\ result.code = 200

\* C2: a call never follows more than redirect_limit redirects; when the server
\* keeps answering followable redirects, the call raises
\* GrabTooManyRedirectsError after exactly redirect_limit followed hops, that
\* is after exactly redirect_limit + 1 dispatches.
C2_RedirectLimit ==
    /\ [] ( op = "request" =>
              /\ Len(sent) <= config.redirect_limit + 1
              /\ (pc = "dispatching" => Len(sent) <= config.redirect_limit)
              /\ ((pc = "failed" /\ err.kind = "GrabTooManyRedirectsError")
                    => /\ Len(sent) = config.redirect_limit + 1
                       /\ redir_count = config.redirect_limit + 1) )
    /\ [][ (/\ pc = "classifying" /\ ~response.fault
            /\ config.follow_location
            /\ response.code \in {301, 302, 303, 307, 308}
            /\ Truthy(response.location))
           => IF Len(sent) = config.redirect_limit + 1
              THEN pc' = "failed" /\ err'.kind = "GrabTooManyRedirectsError"
              ELSE err'.kind # "GrabTooManyRedirectsError" ]_vars

\* C2 witness: two chained 302 responses with redirect_limit = 1 end the call
\* with GrabTooManyRedirectsError after one followed hop
C2_Witness ==
    /\ pc = "failed" /\ err.kind = "GrabTooManyRedirectsError"
    /\ config.redirect_limit = 1 /\ Len(sent) = 2
    /\ first.code = 302 /\ response.code = 302

\* C3: a completed exchange is treated as a redirect exactly when
\* follow_location is enabled, the status code is one of 301, 302, 303, 307,
\* 308 and the Location header is non-empty; otherwise its Document is
\* returned and nothing more is dispatched.
C3_RedirectIff ==
    /\ [][ (pc = "classifying" /\ ~response.fault) =>
             LET cond == /\ config.follow_location
                         /\ response.code \in {301, 302, 303, 307, 308}
                         /\ response.location.kind \notin {"none", "empty"}
             IN /\ (redir_count' = redir_count + 1) <=> cond
                /\ ~cond => /\ pc' = "done"
                            /\ result' = [code |-> response.code,
                                          location |-> response.location,
                                          seq |-> Len(sent)]
                            /\ sent' = sent
                /\ cond => pc' \in {"dispatching", "failed"} ]_vars
    /\ [][ pc = "done" => (pc' = "idle" /\ sent' = <<>>) ]_vars

\* C3 witness: a 302 with a Location returned as the terminal Document because
\* follow_location is disabled
C3_Witness ==
    /\ pc = "done" /\ ~config.follow_location
    /\ result.code = 302 /\ Truthy(result.location) /\ Len(sent) = 1

(***************************************************************************)
(* Errors and one-shot options                                             *)
(***************************************************************************)
OneShotCleared(cfg) ==
    cfg.post = None /\ cfg.multipart_post = None /\ cfg.method = None

\* C4: when Transport.request raises a classified error, on the first
\* attempt or on a redirect hop, the call dispatches nothing more, the same
\* error reaches the caller, and post, multipart_post and method are None.
C4_TransportErrorIsFinal ==
    /\ [][ (pc = "dispatching" /\ err'.kind \in TransportErrors) =>
             /\ pc' = "failed"
             /\ sent' = Append(sent, req.url)
             /\ OneShotCleared(config') ]_vars
    /\ [][ pc = "failed" => (pc' = "idle" /\ sent' = <<>>) ]_vars
    /\ [] ( (pc = "failed" /\ err.msg = "transport" /\ err.kind \in TransportErrors)
              => OneShotCleared(config) )

\* C4 witness: a POST whose dispatch failed, with the payload options cleared
C4_Witness ==
    /\ pc = "failed" /\ err = Err("GrabConnectionError", "transport")
    /\ req.method = "POST" /\ req.data = "p1" /\ Len(sent) = 1
    /\ config.post = None

\* C5: whenever a request call ends with an error of the taxonomy, raised
\* while preparing, dispatching or processing, post, multipart_post and method
\* are None when the error reaches the caller.
C5_OneShotClearedOnEveryError ==
    (op = "request" /\ pc = "failed" /\ err.kind \in Taxonomy) => OneShotCleared(config)

\* C6 as claimed: a request with method POST or PUT and no payload raises
\* GrabMisuseError before Transport.request is invoked.
C6_PostWithoutPayloadIsMisuse ==
    (/\ op = "request"
     /\ config.method \in {"POST", "PUT"}
     /\ config.post = None /\ config.multipart_post = None)
    => (pc = "failed" /\ sent = <<>> /\ err.kind = "GrabMisuseError")

\* C6 amended: a request with method POST or PUT and no payload ends with an
\* error raised during preparation, before Transport.request is invoked:
\* GrabMisuseError whenever the configured URL passes normalization, and
\* otherwise GrabMisuseError or GrabInvalidUrl.
C6_PostWithoutPayloadFailsInPreparation ==
    (/\ op = "request"
     /\ config.method \in {"POST", "PUT"}
     /\ config.post = None /\ config.multipart_post = None)
    => (/\ pc = "failed" /\ sent = <<>>
        /\ err.kind \in {"GrabMisuseError", "GrabInvalidUrl"}
        /\ (err.kind = "GrabInvalidUrl" =>
              (config.url.kind = "none" \/ config.url.host \in UnnormalizableHosts)))

\* C6 witness: a PUT without payload to a valid URL refused before any dispatch
C6_Witness ==
    /\ op = "request" /\ pc = "failed" /\ sent = <<>>
    /\ config.method = "PUT" /\ config.post = None /\ config.multipart_post = None
    /\ config.url = Url("abs", "h1", <<"d", "p">>)
    /\ err = Err("GrabMisuseError", "Neither post or multipart_post")

\* C7: setup, and request through setup, with overrides of which at least one
\* key is not an option raises GrabMisuseError and leaves every config value
\* unchanged, those of the valid keys of the same call included.
C7_UnknownKeyAppliesNothing ==
    /\ [][ rejected' # NoKwargs => config' = config ]_vars
    /\ [] ( rejected # NoKwargs =>
              (pc = "failed" /\ err = Err("GrabMisuseError", "Unknown option")) )

\* C7 witness: a refused call that also named method with a value the config
\* does not hold
C7_Witness ==
    /\ rejected # NoKwargs /\ pc = "failed"
    /\ "method" \in DOMAIN rejected
    /\ rejected["method"] = "PUT" /\ config.method = None

(***************************************************************************)
(* Claims about the config store, checked under SpecStore                  *)
(***************************************************************************)
\* what a caller reads from a config value: None, or the entries of the
\* container, of the container nested in it and the cookie list it carries
DeepVal(h, o) ==
    IF o = 0 THEN <<>>
    ELSE <<h[o].val,
           IF h[o].inner = 0 THEN <<>> ELSE <<h[h[o].inner].val>>,
           h[o].has_cj, h[o].cj>>

Alive(s) == grabs[s].alive

\* an in-place change of a container by the user: no session and no record is
\* reassigned, only an object changes
InPlaceChange == grabs' = grabs /\ dumped' = dumped /\ heap' # heap

\* the value session s reads for option k changes in this step
ValueChanges(s, k) ==
    DeepVal(heap', grabs'[s].config[k]) # DeepVal(heap, grabs[s].config[k])

\* C8: after clone() (or dump_config/load_config), changing an entry of a
\* mutable-typed option (post, multipart_post, headers, cookies) of one session
\* in place, at any nesting depth, never changes the value another session
\* reads for that option
C8_CloneMutationIsolated ==
    [][InPlaceChange =>
         \A k \in {"post", "multipart_post", "headers", "cookies"} :
            \A s, t \in Sessions :
               (Alive(s) /\ Alive(t) /\ s # t) =>
                  ~(ValueChanges(s, k) /\ ValueChanges(t, k))]_vars

\* C9: two sessions never hold the same mutable object as the value of a
\* container-valued config key (headers, cookies, post, multipart_post,
\* common_headers, state)
C9_NoSharedContainer ==
    \A s, t \in Sessions :
       (Alive(s) /\ Alive(t) /\ s # t) =>
          \A k \in ContainerKeys :
             grabs[s].config[k] # 0 => grabs[s].config[k] # grabs[t].config[k]

\* a record dumped from session trip.src was loaded by another session
\* trip.dst, and nothing else happened in between or since
RoundTripDone == trip.src # 0 /\ trip.dst # 0

\* the value of option k is the same for the source and the loading session
SameOption(k) ==
    IF k \in ContainerKeys
    THEN DeepVal(heap, grabs[trip.dst].config[k]) = DeepVal(heap, grabs[trip.src].config[k])
    ELSE grabs[trip.dst].config[k] = grabs[trip.src].config[k]

\* the loading session's jar holds the cookies of the record's
\* state.cookiejar_cookies, in that order
JarIsRecordList ==
    /\ dumped.present /\ dumped.config["state"] # 0
    /\ heap[dumped.config["state"]].has_cj
    /\ grabs[trip.dst].jar = heap[dumped.config["state"]].cj

\* C10 as stated: dump_config() then load_config() on another session yields a
\* config equal to the source config on every option, and a jar with the
\* cookies of the record's cookiejar_cookies in the same order
C10_RoundTripEveryOption ==
    RoundTripDone => (\A k \in StoreKeys : SameOption(k)) /\ JarIsRecordList

\* C10 amended: dump_config() then load_config() on another session yields a
\* config equal to the source config on every option other than state, whose
\* value is the record's state with the cookie snapshot, and a jar with the
\* cookies of the record's cookiejar_cookies (the source's cookies) in the
\* same order
C10_RoundTripExceptState ==
    RoundTripDone =>
       /\ \A k \in StoreKeys \ {"state"} : SameOption(k)
       /\ grabs[trip.dst].config["state"] = dumped.config["state"]
       /\ JarIsRecordList
       /\ grabs[trip.dst].jar = grabs[trip.src].jar

\* a source holding two cookies of different domains was dumped and the record
\* loaded by another session
C10_Witness ==
    /\ RoundTripDone
    /\ Len(grabs[trip.src].jar) = 2
    /\ grabs[trip.src].jar[1].domain # grabs[trip.src].jar[2].domain
    /\ grabs[trip.dst].config["common_headers"] # 0

(***************************************************************************)
(* Claims about the cookie options, checked under SpecCookies              *)
(***************************************************************************)
\* the domains a broadcast cookie may be stored under: the hosts requested,
\* with a leading www. stripped
StrippedHosts == {request_host_no_www(h) : h \in Hosts \ {NoHost}}

\* C11: a name/value pair of the cookies option is stored, when a request is
\* prepared, under the request host with a leading www. stripped, so the
\* Cookie header of the request prepared carries every pair of the option (for
\* www.example.com as for example.com); and no cookie of the jar is without a
\* domain
C11_CookieBroadcast ==
    /\ prepared.host # NoHost =>
          \A n \in DOMAIN prepared.opt : <<n, prepared.opt[n]>> \in prepared.hdr
    /\ \A c \in cookiejar : c.domain \in StrippedHosts /\ ~StartsWithWww(c.domain)
    /\ \A c \in cookiejar : c.domain # EmptyName

(***************************************************************************)
(* Claims about one dispatch, checked under SpecTransport                  *)
(***************************************************************************)
\* the body was read under a cap
Capped == ~tr_req.config_nobody /\ tr_req.config_body_maxsize > 0

\* C12: for every cap K > 0 and every body of n bytes in any chunking,
\* read_with_timeout returns exactly the first min(n, K) bytes; no read is
\* issued once more than K bytes have been received; and an error raised while
\* a capped body is read is a timeout, never an error about the size
C12_BodyCap ==
    [][ /\ (Capped /\ tr_pc' = "returned") =>
             out'.data = SubSeq(body, 1, MinOf(Len(body), tr_req.config_body_maxsize))
        /\ (Capped /\ tr_pc = "read" /\ tr_pc' # tr_pc) =>
             bytes_read <= tr_req.config_body_maxsize
        /\ (Capped /\ tr_pc = "read" /\ tr_pc' = "raised") =>
             out'.err.kind = "GrabTimeoutError" ]_vars

\* a body longer than the cap was returned cut to the cap, after more bytes
\* than the cap were received in two chunks, with bytes left in the stream
C12_Witness ==
    /\ tr_pc = "returned" /\ Capped
    /\ Len(body) > tr_req.config_body_maxsize
    /\ Len(out.data) = tr_req.config_body_maxsize
    /\ Len(chunks) = 2 /\ bytes_read > tr_req.config_body_maxsize
    /\ stream # <<>>

\* C13: a server that stalls longer than the read timeout, before the
\* response head (inside Transport.request) or between body chunks (inside
\* prepare_response), ends the call with GrabTimeoutError reported as
\* ReadTimeoutError, and with no other error and no body
C13_StallIsReadTimeout ==
    stall \in {"head", "body"} =>
       /\ tr_pc = "raised"
       /\ out = Raised(Err("GrabTimeoutError", "ReadTimeoutError"))

\* the server stalled after a first chunk of the body was read
C13_Witness ==
    /\ stall = "body" /\ tr_pc = "raised"
    /\ chunks # <<>> /\ stream # <<>>

\* C14: when the time elapsed since the dispatch started exceeds the timeout
\* while the body is being read, the read ends with GrabTimeoutError and no
\* body is returned, though no wait exceeded the read timeout
C14_AggregateTimeout ==
    (tr_pc = "returned" /\ ~tr_req.config_nobody /\ tr_req.timeout # 0) =>
       clock <= tr_req.timeout

\* C15: a connect phase longer than the connect timeout ends the call with
\* GrabTimeoutError, not with a connection error
C15_ConnectTimeoutIsTimeout ==
    stall = "connect" =>
       /\ tr_pc = "raised"
       /\ out.err.kind = "GrabTimeoutError"

(***************************************************************************)
(* Claims about the errors of a request call, checked under Spec           *)
(***************************************************************************)
\* C16: whatever fault the transport hits during dispatch or response
\* processing, the exception that reaches the caller of request() is one of
\* the classified kinds of the taxonomy
C16_OnlyClassifiedErrors ==
    (pc = "failed" /\ op = "request") => err.kind \in Taxonomy

NewCalls == SubSeq(calls', Len(calls) + 1, Len(calls'))

\* C18: for each attempt the retry hooks are evaluated in registration order;
\* the first hook whose result is not (None, None) is authoritative: its
\* (state, request) pair is the retry state and the request of the next
\* attempt, and no retry hook registered after it is invoked for the attempt
C18_FirstRetrySignalWins ==
    [][ cl_pc = "retry" =>
          LET new == NewCalls
              n == Len(new)
          IN /\ \A i \in 1..n : new[i].kind = "retry" /\ new[i].idx = i
             /\ \A i \in 1..n : new[i].req = cl_req /\ new[i].doc = cl_doc
             /\ \A i \in 1..(n - 1) : new[i].res = NoRetry
             /\ IF n > 0 /\ new[n].res # NoRetry
                THEN /\ cl_pc' = "pre"
                     /\ cl_retry' = new[n].res[1]
                     /\ cl_req' = new[n].res[2]
                ELSE /\ n = ext_handlers["retry"]
                     /\ cl_pc' = "done" ]_vars

\* the first of two retry hooks signalled a retry with a replacement request:
\* the second attempt runs on it and the second hook was not invoked
C18_Witness ==
    /\ cl_pc = "pre" /\ attempt = 2 /\ ext_handlers["retry"] = 2
    /\ cl_req = 2 /\ cl_retry = 2
    /\ \E i \in 1..Len(calls) :
          calls[i].kind = "retry" /\ calls[i].idx = 1 /\ calls[i].res = <<2, 2>>
    /\ \A i \in 1..Len(calls) : ~(calls[i].kind = "retry" /\ calls[i].idx = 2)

\* C19: response:post hooks are invoked only on the terminal Document of a
\* call: none is invoked on a Document that leads to a retry, so per call each
\* response:post hook runs exactly once
C19_PostHooksOnTerminalDocumentOnly ==
    cl_pc = "done" =>
       \A j \in 1..ext_handlers["response:post"] :
          LET at == {i \in 1..Len(calls) :
                        calls[i].kind = "response:post" /\ calls[i].idx = j}
          IN /\ Cardinality(at) = 1
             /\ \A i \in at : calls[i].doc = cl_doc

\* C20: before every dispatch, the first and each retry, all request:pre
\* hooks are invoked in registration order on the request object that is then
\* dispatched (after a retry, the replacement), and the transport is reset
\* between the hooks and the dispatch
C20_PreHooksBeforeEveryDispatch ==
    [][ cl_pc = "pre" =>
          LET new == NewCalls
              n == ext_handlers["request:pre"]
          IN /\ Len(new) = n + 2
             /\ \A i \in 1..n :
                   /\ new[i].kind = "request:pre" /\ new[i].idx = i
                   /\ new[i].req = cl_req
             /\ new[n + 1].kind = "reset"
             /\ new[n + 2].kind = "request" /\ new[n + 2].req = cl_req ]_vars

\* the second attempt of a call dispatched the replacement request after both
\* request:pre hooks ran on it
C20_Witness ==
    /\ cl_pc = "result" /\ attempt = 2 /\ cl_req = 2
    /\ ext_handlers["request:pre"] = 2
    /\ calls[Len(calls)] = Call("request", 0, 2, 0, NoRetry)
    /\ calls[Len(calls) - 2] = Call("request:pre", 2, 2, 0, NoRetry)

(***************************************************************************)
(* Cookies across the redirect loop                                        *)
(***************************************************************************)
SameCookieKey(c, d) == c.name = d.name /\ c.domain = d.domain

\* exchange j of the call received a cookie with the name and domain of c
ReceivedAt(j, c) == \E d \in g_hops[j].cookies : SameCookieKey(c, d)

\* the cookies option cfg holds names c and is stored under the domain of c
\* when a request to u is prepared
OptionStoredOver(cfg, u, c) ==
    /\ c.name \in DOMAIN cfg.cookies
    /\ c.domain = request_host_no_www(hostname(u))

\* a redirect was followed in this step and the descriptor of the hop was built
HopBuilt ==
    /\ g_pc = "dispatching" /\ g_pc' = "dispatching"
    /\ Len(g_hops') = Len(g_hops) + 1

\* the cookies of the response that was followed in this step
JustReceived == g_hops'[Len(g_hops')].cookies

IsOptionEntry(cfg, u, c) ==
    /\ c.name \in DOMAIN cfg.cookies
    /\ c.value = cfg.cookies[c.name]
    /\ hostname(u) # NoHost
    /\ c.domain = request_host_no_www(hostname(u))

\* C22: with reuse_cookies disabled, no step of a session puts a received
\* cookie into the jar: a cookie that enters the jar is an entry of the
\* cookies option stored for the host of the request being prepared, a cookie
\* leaves it only by clear_cookies or replaced by such an entry; the cookies of
\* the last response are on the Document returned.
C22_JarUntouchedWithoutReuse ==
    /\ [][ ~g_config.reuse_cookies
           => /\ \A c \in g_cookies' \ g_cookies :
                   /\ g_prepares' # g_prepares
                   /\ IsOptionEntry(g_config', g_config'.url, c)
              /\ \A c \in g_cookies \ g_cookies' :
                   \/ g_pc = "idle" /\ g_pc' = "idle" /\ g_cookies' = {}
                                    /\ g_config'.cookies = NoCookiesOption
                   \/ \E d \in g_cookies' \ g_cookies : SameCookieKey(c, d) ]_vars
    /\ [] ( (g_pc = "done" /\ ~g_config.reuse_cookies)
            => g_doc.cookies = g_hops[Len(g_hops)].cookies )

\* C22 witness: a call with reuse_cookies disabled followed a redirect that set
\* a cookie and returned a Document with a cookie; the jar is empty
C22_Witness ==
    /\ g_pc = "done" /\ ~g_config.reuse_cookies
    /\ Len(g_hops) = 2
    /\ g_hops[1].cookies # {}
    /\ g_doc.cookies # {}
    /\ g_cookies = {}

(***************************************************************************)
(* Proxy pool and body storage                                             *)
(***************************************************************************)
\* prepare_request ran in this step
Prepared == g_prepares' # g_prepares /\ g_prepares' > 0

\* the three proxy options of cfg are those of server sv
ProxyOptionsOf(cfg, sv) ==
    /\ cfg.proxy = sv.address
    /\ cfg.proxy_userpwd = sv.userpwd
    /\ cfg.proxy_type = sv.proxy_type

\* C23: with a non-empty proxy pool and proxy_auto_change enabled, every
\* preparation of a call (the initial one and each redirect hop) either leaves
\* proxy, proxy_userpwd and proxy_type set from one and the same server of the
\* pool, a server with a declared type, or, a server without a declared type
\* being in the pool, raises GrabMisuseError with the three options as they
\* were, no descriptor built and nothing dispatched.
C23_ProxySelectedPerPreparation ==
    [][ (Prepared /\ Len(g_proxylist) # 0 /\ g_config.proxy_auto_change)
        => \/ \E sv \in Servers(g_proxylist) :
                sv.proxy_type # None /\ ProxyOptionsOf(g_config', sv)
           \/ /\ \E sv \in Servers(g_proxylist) : sv.proxy_type = None
              /\ g_err' = Err("GrabMisuseError", "proxy type")
              /\ g_pc' = "failed"
              /\ g_request' = NoDescriptor
              /\ g_config'.proxy = g_config.proxy
              /\ g_config'.proxy_userpwd = g_config.proxy_userpwd
              /\ g_config'.proxy_type = g_config.proxy_type ]_vars

\* C23 witness: the first request of a call went through p1:80; the
\* preparation of its redirect hop drew the server without a type and failed,
\* and the proxy options are still those of p1:80
C23_Witness ==
    /\ g_pc = "failed" /\ g_prepares = 2
    /\ g_err = Err("GrabMisuseError", "proxy type")
    /\ Len(g_hops) = 1 /\ g_hops[1].req.proxy = "p1:80"
    /\ g_config.proxy = "p1:80" /\ g_config.proxy_type = "http"
    /\ g_config.proxy_userpwd = "u1:pw"

\* a request was prepared in this step with the body going to a file and no
\* storage directory configured
PreparedWithoutStorage ==
    Prepared /\ ~g_config'.body_inmemory /\ g_config'.body_storage_dir = None

\* C25 as stated: a request with body_inmemory disabled and no
\* body_storage_dir raises GrabMisuseError while it is prepared; nothing is
\* dispatched and no body file is allocated.
C25_NoStorageIsMisuse ==
    [][ PreparedWithoutStorage
        => /\ g_err'.kind = "GrabMisuseError"
           /\ g_pc' = "failed"
           /\ g_request' = NoDescriptor /\ g_hops' = <<>>
           /\ g_files' = 0 ]_vars

\* C25: a request with body_inmemory disabled and no body_storage_dir fails
\* while it is prepared, with nothing dispatched and no body file allocated: it
\* raises GrabMisuseError when the URL passes normalization, and either
\* GrabInvalidUrl or the GrabMisuseError of an earlier step of the preparation
\* when it does not.
C25_NoStorageFailsInPreparation ==
    [][ PreparedWithoutStorage
        => /\ g_pc' = "failed"
           /\ g_request' = NoDescriptor /\ g_hops' = <<>>
           /\ g_files' = 0
           /\ g_err'.kind \in {"GrabMisuseError", "GrabInvalidUrl"}
           /\ ~NormalizeFails(g_config'.url) => g_err'.kind = "GrabMisuseError"
           /\ g_err'.kind = "GrabInvalidUrl" => NormalizeFails(g_config'.url) ]_vars

\* C25 witness: the call to a.com of a session with body_inmemory disabled and
\* no storage directory failed with the GrabMisuseError of process_config;
\* nothing was sent and no file made
C25_Witness ==
    /\ g_pc = "failed"
    /\ ~g_config.body_inmemory /\ g_config.body_storage_dir = None
    /\ g_config.url = SiteA
    /\ g_err = Err("GrabMisuseError", "body_storage_dir")
    /\ g_hops = <<>> /\ g_files = 0 /\ g_request = NoDescriptor

(***************************************************************************)
(* URL overrides                                                           *)
(***************************************************************************)
\* what a url override u is stored as over the config cfg
ResolvedOverride(cfg, u) == IF Truthy(cfg.url) THEN urljoin(cfg.url, u) ELSE u

\* C24: in every state of a session, a url override given to setup or to
\* request is stored as urljoin(config url, override) when the config holds a
\* URL and as it is when it holds none; when a call that followed redirects has
\* returned, the config url is the URL of the last request sent, the redirect
\* target, and an override given next is resolved against it.
C24_UrlOverrideResolved ==
    /\ \A u \in UrlArgs :
         /\ setup(config, One("url", u)).config.url = ResolvedOverride(config, u)
         /\ prepare_request(config, One("url", u)).config.url = ResolvedOverride(config, u)
    /\ (pc = "done" /\ Len(sent) >= 2)
         => /\ config.url = sent[Len(sent)]
            /\ Len(sent) = 2 => config.url = urljoin(sent[1], first.location)
            /\ \A u \in UrlArgs :
                 setup(config, One("url", u)).config.url = urljoin(sent[Len(sent)], u)

\* C24 witness: a request for the relative URL n is being dispatched to
\* h2/n; h2 is a host that only a redirect leads to, so the URL was resolved
\* against the target of the redirect of an earlier call
C24_Witness ==
    /\ pc = "dispatching" /\ sent = <<>>
    /\ config.url = Url("abs", "h2", <<"n">>)
    /\ req.url = config.url

(***************************************************************************)
(* Sessions on threads                                                     *)
(***************************************************************************)
\* C26: a session made by clone() has a transport of its own, and when the
\* session and its clone run request() concurrently each call sends the
\* descriptor it built, gets the response to its own request and never fails
\* on a transport the other call emptied; no cookie of a response to the
\* clone's request is in the jar of the original.
C26_CloneRunsOnItsOwn ==
    /\ th_transport[2] # 0 => th_transport[2] # th_transport[1]
    /\ \A s \in ThreadSessions :
         /\ th_pc[s] \in {"sending", "received", "done"} => th_sent[s] = s
         /\ th_pc[s] = "done" => th_got[s] = s
         /\ th_pc[s] # "failed"
    /\ 2 \notin th_cookies[1]

C28_EveryInitRetryHookInvoked ==
    cl_pc # "idle" =>
       LET n == ext_handlers["init-retry"]
       IN /\ Len(calls) >= n
          /\ \A i \in 1..n :
                /\ calls[i].kind = "init-retry" /\ calls[i].idx = i
                /\ calls[i].retry = 1
          /\ \A i \in (n + 1)..Len(calls) : calls[i].kind # "init-retry"

(***************************************************************************)
(* Loop state from one call to the next, checked under SpecCalls           *)
(***************************************************************************)
\* C29: no loop state of a call survives it.  A Grab.request call starts with
\* redir_count 0 whatever the call before left, so inside a call redir_count
\* never exceeds the number of exchanges of that call and
\* GrabTooManyRedirectsError is raised only after redirect_limit + 1 exchanges
\* of the call itself.  An HttpClient.request call starts with the Retry
\* object it creates, whose state is empty when the first init-retry hook
\* receives it, and the client holds no Retry object between calls.
C29_NoLoopStateAcrossCalls ==
    [][ /\ (pc = "idle" /\ op' = "request") => redir_count' = 0
        /\ (op = "request" /\ pc # "idle") => redir_count <= Len(sent)
        /\ (pc = "failed" /\ err.kind = "GrabTooManyRedirectsError")
              => Len(sent) = config.redirect_limit + 1
        /\ (cl_pc = "idle" /\ cl_pc' # "idle")
              => /\ cl_retry' = 1
                 /\ \A i \in 1..Len(calls') :
                       calls'[i].kind = "init-retry"
                          => /\ calls'[i].retry = 1
                             /\ (i = 1 => calls'[i].state = {})
        /\ cl_pc = "idle" => cl_retry = 0 ]_vars

\* C29 witness: the call before ended with its counter above the limit of 1;
\* the call in progress has followed a redirect of its own and is about to
\* dispatch the hop, while the client, between calls, holds no Retry object
C29_Witness ==
    /\ pc = "dispatching" /\ op = "request"
    /\ config.redirect_limit = 1
    /\ before = 2
    /\ redir_count = 1 /\ Len(sent) = 1
    /\ first.code \in RedirectCodes
    /\ cl_pc = "idle" /\ cl_retry = 0
    /\ ext_handlers["init-retry"] = 2

(***************************************************************************)
(* The end of the attempt loop, checked under SpecClientLive               *)
(***************************************************************************)
\* the positions of calls of the given kind
CallsOf(kind) == {i \in 1..Len(calls) : calls[i].kind = kind}

\* the invocations of retry hooks that signalled a retry
Signals == {i \in CallsOf("retry") : calls[i].res # NoRetry}

\* C30: the loop has no attempt bound of its own and ends with the hooks: a
\* call in progress comes to its end, returning or raising from a dispatch;
\* when it returns it has dispatched once more than the retry hooks
\* signalled, at most MaxAttempts times when the hooks signal on at most
\* MaxAttempts - 1 attempts, and the Document returned is that of the last
\* attempt, the only one on which every retry hook was invoked and returned
\* (None, None)
C30_LoopEndsWithTheHooks ==
    /\ [](cl_pc = "done" =>
            /\ Cardinality(CallsOf("request")) = Cardinality(Signals) + 1
            /\ Cardinality(CallsOf("request")) <= MaxAttempts
            /\ cl_doc = Cardinality(CallsOf("request"))
            /\ \A d \in 1..cl_doc :
                  LET at == {i \in CallsOf("retry") : calls[i].doc = d}
                  IN IF d = cl_doc
                     THEN /\ Cardinality(at) = ext_handlers["retry"]
                          /\ at \cap Signals = {}
                     ELSE Cardinality(at \cap Signals) = 1)
    /\ (cl_pc \notin {"idle", "done", "failed"}) ~> (cl_pc \in {"done", "failed"})

\* C30 witness: with two retry hooks the call returned the Document of its
\* last attempt after the hooks had signalled on every attempt before it
C30_Witness ==
    /\ cl_pc = "done" /\ ext_handlers["retry"] = 2
    /\ attempt = MaxAttempts /\ cl_doc = MaxAttempts
    /\ Cardinality(CallsOf("request")) = MaxAttempts
    /\ Cardinality(Signals) = MaxAttempts - 1

(***************************************************************************)
(* The pool of a transport instance, checked under SpecPool                *)
(***************************************************************************)
\* C31: reset() empties request_head, request_body and request_log and sets
\* _request and _response to None, and nothing else: the pool object of the
\* instance is the one created at construction after any number of requests
\* and resets, and every dispatch without a proxy went through that pool
C31_PoolOutlivesReset ==
    [][ /\ (t_pc \in {"done", "failed"} /\ t_pc' = "idle")
              => /\ t_transport' = new_transport(t_transport.pool)
                 /\ t_transport'.request = NoPoolRequest /\ t_transport'.response = 0
                 /\ UNCHANGED <<t_made, t_log, t_disk, t_doc>>
        /\ t_transport'.pool = t_transport.pool
        /\ t_transport'.pool = 1
        /\ \A i \in 1..Len(t_log') : t_log'[i].direct => t_log'[i].pool = 1 ]_vars

\* C31 witness: after a request through a proxy, served by a manager of its
\* own, and the reset that followed, a request without a proxy was served by
\* the pool of the instance
C31_Witness ==
    /\ t_pc = "responded" /\ Len(t_log) = 2
    /\ ~t_log[1].direct /\ t_log[1].pool = 2
    /\ t_log[2].direct /\ t_log[2].pool = 1
    /\ t_transport.pool = 1 /\ t_transport.response = 2

\* the response of exchange i is still in the hands of prepare_response's caller
BeingProcessed(i) == t_pc = "responded" /\ i = t_transport.response

\* C32: the connection of every response Transport.request obtained is held
\* until prepare_response has run on it and from then on has gone back to its
\* pool exactly once, whether prepare_response returned a Document, of a
\* redirect or not, or raised from the read of the body, the open of the body
\* file, the parse of the headers or the extraction of the cookies
C32_ConnectionReleasedOnce ==
    \A i \in 1..Len(t_log) :
       t_log[i].conn # "none"
          => IF BeingProcessed(i)
             THEN t_log[i].conn = "held" /\ t_log[i].returns = 0
             ELSE t_log[i].conn = "pooled" /\ t_log[i].returns = 1

\* C32 witness: the first response was processed and the second, a redirect,
\* ran into a timeout while its body was read into its file; both connections
\* went back to their pools once
C32_Witness ==
    /\ t_pc = "failed" /\ Len(t_log) = 2
    /\ t_log[1].conn = "pooled" /\ t_log[1].returns = 1
    /\ t_log[2].conn = "pooled" /\ t_log[2].returns = 1
    /\ t_log[2].path # NoPath
    /\ t_doc.kind = "error" /\ t_doc.err = "GrabTimeoutError"
    /\ t_wire.code = 302

(***************************************************************************)
(* Bodies kept in files, checked under SpecFiles                           *)
(***************************************************************************)
\* the exchange whose Document the caller holds was prepared with
\* body_inmemory off
FileBacked == t_pc = "done" /\ ~t_config.body_inmemory

Stored(jar, name, domain) == {c \in jar : c.name = name /\ c.domain = domain}

\* a request to a host is prepared and every pair of the cookies option is in
\* the jar afterwards, once, under the www-stripped host
CopiedOncePerDomain ==
    (PrepareCookies /\ prepared'.host # NoHost) =>
        \A n \in DOMAIN cookies_opt :
            Stored(cookiejar', n, request_host_no_www(prepared'.host))
                = {[name |-> n, value |-> cookies_opt[n],
                    domain |-> request_host_no_www(prepared'.host)]}

====
